---- MODULE Spec2Model ----
(***************************************************************************)
(* Model of the real-time collaboration engine of the task manager:        *)
(*   - the pairwise operational transform of the socket server             *)
(*     (backend/src/socket/socketHandler.ts, transformAgainstOperation),   *)
(*   - the operation:send handler with its awaits as separate steps,       *)
(*   - the entity rooms (join:entity / leave:entity),                      *)
(*   - the OT client of real-time-collaboration-guide.md,                  *)
(*   - the connection gateway: the authentication middleware, presence     *)
(*     updates, disconnect and the presence list of the client.            *)
(* Text is a sequence of one-character strings.                            *)
(***************************************************************************)
EXTENDS Integers, Sequences, FiniteSets, TLC

\* ------------------------------------------------------------------ bounds
\* longest base text of the transform checks
MaxLen == 2
\* number of operation:send events the server receives in one behaviour
MaxSends == 2
\* largest client version a raw operation:send carries
MaxVersion == 1
\* largest position a raw operation:send carries
MaxPos == 1
\* number of local edits of one OT client
MaxEdits == 1
\* cap on the length of socket.data.rooms
MaxRooms == 1
\* cap on the presence:updated events waiting at one socket
MaxEvents == 1
\* largest number of operations applied to the entity before the behaviour starts
MaxHistory == 2
\* number of requests the authentication endpoints receive in one behaviour
MaxRequests == 7
\* cap on the messages of one PresenceIndicator waiting for the server
MaxEmitted == 3
\* number of seconds that pass while tokens are issued
MaxSeconds == 2
\* number of sockets one useSocket instance creates
MaxSockets == 2

\* ------------------------------------------------------------------ values
Sockets == {"s1", "s2"}
Entities == {"e1", "e2"}
Alphabet == {"a", "b"}

\* socket.data.user.id of a connection
User(s) == IF s = "s1" THEN "u1" ELSE "u2"

\* the text a user types
Typed(u) == IF u = "u1" THEN <<"x">> ELSE <<"y">>

Min(a, b) == IF a < b THEN a ELSE b
Max(a, b) == IF a > b THEN a ELSE b

\* an Operation value; length is meaningful for delete, content for insert.
\* positionType is typeof position: a message may carry a position that is
\* no number, and position then holds 0.
MkOp(id, type, position, length, content, userId, timestamp) ==
  [id |-> id, type |-> type, position |-> position,
   length |-> length, content |-> content, userId |-> userId, timestamp |-> timestamp,
   positionType |-> "number"]

NoOp == MkOp(0, "none", 0, 0, <<>>, "", 0)

\* ------------------------------------------------------------------ pure functions
\* String.prototype.slice(a, b): negative indexes count from the end, both
\* ends are clamped to the string
SliceIndex(i, n) == IF i < 0 THEN Max(n + i, 0) ELSE Min(i, n)

Slice(s, a, b) ==
  LET lo == SliceIndex(a, Len(s))
      hi == SliceIndex(b, Len(s))
  IN IF lo >= hi THEN <<>> ELSE SubSeq(s, lo + 1, hi)

\* applyToContent: insert splices, delete removes a range, the rest is a no-op
applyToContent(content, operation) ==
  CASE operation.type = "insert" ->
         Slice(content, 0, operation.position) \o operation.content
           \o Slice(content, operation.position, Len(content))
    [] operation.type = "delete" ->
         Slice(content, 0, operation.position)
           \o Slice(content, operation.position + operation.length, Len(content))
    [] OTHER -> content

\* transformAgainstOperation without the case of an insert inside the
\* deleted range: the insert is shifted left whenever it is behind the start
transformAgainstOperationShiftOnly(operation1, operation2) ==
  IF operation1.type = "insert" /\ operation2.type = "insert" THEN
    IF operation1.position <= operation2.position
    THEN operation1
    ELSE [operation1 EXCEPT !.position = operation1.position + Len(operation2.content)]
  ELSE IF operation1.type = "delete" /\ operation2.type = "insert" THEN
    IF operation1.position <= operation2.position
    THEN operation1
    ELSE [operation1 EXCEPT !.position = operation1.position + Len(operation2.content)]
  ELSE IF operation1.type = "insert" /\ operation2.type = "delete" THEN
    IF operation1.position <= operation2.position
    THEN operation1
    ELSE [operation1 EXCEPT !.position = operation1.position - operation2.length]
  ELSE operation1

\* transformAgainstOperation of the server: insert/insert, delete/insert and
\* insert/delete are adjusted, every other pair is returned unchanged
transformAgainstOperation(operation1, operation2) ==
  IF operation1.type = "insert" /\ operation2.type = "insert" THEN
    IF operation1.position <= operation2.position
    THEN operation1
    ELSE [operation1 EXCEPT !.position = operation1.position + Len(operation2.content)]
  ELSE IF operation1.type = "delete" /\ operation2.type = "insert" THEN
    IF operation1.position <= operation2.position
    THEN operation1
    ELSE [operation1 EXCEPT !.position = operation1.position + Len(operation2.content)]
  ELSE IF operation1.type = "insert" /\ operation2.type = "delete" THEN
    IF operation1.position <= operation2.position
    THEN operation1
    ELSE IF operation1.position >= operation2.position + operation2.length
    THEN [operation1 EXCEPT !.position = operation1.position - operation2.length]
    ELSE [operation1 EXCEPT !.position = operation2.position]
  ELSE operation1

\* transformInsertInsert of the OT service the clients share
transformInsertInsert(op1, op2) ==
  IF op1.position <= op2.position
  THEN op1
  ELSE [op1 EXCEPT !.position = op1.position + Len(op2.content)]

\* transformInsertDelete
transformInsertDelete(op1, op2) ==
  IF op1.position <= op2.position
  THEN op1
  ELSE IF op1.position >= op2.position + op2.length
  THEN [op1 EXCEPT !.position = op1.position - op2.length]
  ELSE [op1 EXCEPT !.position = op2.position]

\* transformDeleteInsert
transformDeleteInsert(op1, op2) ==
  IF op1.position + op1.length <= op2.position
  THEN op1
  ELSE IF op1.position >= op2.position
  THEN [op1 EXCEPT !.position = op1.position + Len(op2.content)]
  ELSE [op1 EXCEPT !.length = op1.position - op2.position]

\* transformDeleteDelete
transformDeleteDelete(op1, op2) ==
  IF op1.position + op1.length <= op2.position
  THEN op1
  ELSE IF op1.position >= op2.position + op2.length
  THEN [op1 EXCEPT !.position = op1.position - op2.length]
  ELSE LET start1 == op1.position
           end1 == op1.position + op1.length
           start2 == op2.position
           end2 == op2.position + op2.length
       IN IF start1 <= start2 /\ end1 >= end2
          THEN [op1 EXCEPT !.length = op1.length - op2.length]
          ELSE IF start1 >= start2 /\ end1 <= end2
          THEN [op1 EXCEPT !.length = 0]
          ELSE [op1 EXCEPT !.length =
                  op1.length - (Min(end1, end2) - Max(start1, start2))]

\* OperationalTransformService.transform, which OTClient.transform repeats
transform(op1, op2) ==
  IF op1.type = "insert" /\ op2.type = "insert" THEN transformInsertInsert(op1, op2)
  ELSE IF op1.type = "insert" /\ op2.type = "delete" THEN transformInsertDelete(op1, op2)
  ELSE IF op1.type = "delete" /\ op2.type = "insert" THEN transformDeleteInsert(op1, op2)
  ELSE IF op1.type = "delete" /\ op2.type = "delete" THEN transformDeleteDelete(op1, op2)
  ELSE op1

\* ------------------------------------------------------------------ state
VARIABLES
  otBase,      \* transform check: the base text
  otX,         \* transform check: operation X, issued against otBase
  otY,         \* transform check: operation Y, issued against otBase
  otLeft,      \* apply(apply(base, X), transform(Y, X)), once computed
  otRight,     \* apply(apply(base, Y), transform(X, Y)), once computed
  otPc,        \* which of the two sides have been computed
  otXT,        \* transform check: X transformed against Y, once computed
  otYT,        \* transform check: Y transformed against X, once computed
  version,     \* Redis key version:<entity>; 0 stands for the missing key
  operations,  \* prisma.operation rows of each entity, in creation order
  handlers,    \* the operation:send handler invocations, in order of receipt
  outbox,      \* messages emitted to each socket and not yet processed by it
  members,     \* socket.io room of each entity: the sockets joined to it
  socketRooms, \* socket.data.rooms of each socket
  presence,    \* Redis keys session:presence:<entity>:<user>
  redisHelpers, \* whether cacheUtils carries getRedisValue and setRedisValue
  inbox,       \* operation:send messages of each OT client on their way to the server
  clContent,   \* OTClient.currentContent
  clVersion,   \* OTClient.version
  clLocalOps,  \* OTClient.localOperations
  clAwaiting,  \* OTClient.awaitingAck (the operation ids)
  clEdits,     \* number of local edits each OT client has made
  conn,        \* each connection: new, connected, rejected or disconnected
  handshake,   \* socket.handshake of each connection: its token and the account behind it
  events,      \* presence:updated and user:disconnected events emitted to each socket
  shown,       \* the presences list of the PresenceIndicator of each client
  lastEvent,   \* the event the last step of the gateway handled
  now,         \* Date.now(), in milliseconds
  authRateLimit, \* the authRateLimit map: the record of each identifier
  attemptLog,  \* the requests of each identifier the rate limit middleware has handled
  indicator,   \* the PresenceIndicator of each client: whether it is mounted, and isHovered
  emitted,     \* join:entity, leave:entity and presence:update messages of each client on their way to the server
  auth,        \* the auth slice of the Redux store: user, tokens, isAuthenticated
  storage,     \* localStorage: the tokens and the user kept there
  hook,        \* one useSocket instance: socketRef, the sockets it created, its pending work
  storedRefreshToken, \* Redis key session:refresh_token:<user>; NoPair stands for the missing key
  refreshCalls \* the calls of refreshTokens: how far each has come and what it holds

otVars == <<otBase, otX, otY, otLeft, otRight, otPc, otXT, otYT>>

rateVars == <<now, authRateLimit, attemptLog>>

frontVars == <<indicator, emitted, auth, storage, hook>>

tokenVars == <<storedRefreshToken, refreshCalls>>

serverVars == <<version, operations, handlers, outbox, members, socketRooms, presence,
                redisHelpers>>

clientVars == <<inbox, clContent, clVersion, clLocalOps, clAwaiting, clEdits>>

gatewayVars == <<conn, handshake, events, shown, lastEvent>>

vars == <<otBase, otX, otY, otLeft, otRight, otPc, otXT, otYT,
          now, authRateLimit, attemptLog,
          indicator, emitted, auth, storage, hook,
          storedRefreshToken, refreshCalls,
          version, operations, handlers, outbox, members, socketRooms, presence,
          redisHelpers,
          inbox, clContent, clVersion, clLocalOps, clAwaiting, clEdits,
          conn, handshake, events, shown, lastEvent>>

\* ------------------------------------------------------------------ transform check
RECURSIVE Texts(_)
Texts(n) ==
  IF n = 0 THEN {<<>>}
  ELSE Texts(n - 1) \cup {Append(t, c) : t \in {u \in Texts(n - 1) : Len(u) = n - 1}, c \in Alphabet}

\* the insert and delete operations of user u that are in bounds for text
InBoundsOps(text, id, u) ==
  {MkOp(id, "insert", p, 0, Typed(u), u, ts) : p \in 0..Len(text), ts \in 1..2}
  \cup
  {MkOp(id, "delete", pl[1], pl[2], <<>>, u, 1) :
     pl \in {q \in (0..Len(text)) \X (1..Len(text)) : q[1] + q[2] <= Len(text)}}

OTIdle ==
  /\ otBase = <<>>
  /\ otX = NoOp
  /\ otY = NoOp
  /\ otLeft = <<>>
  /\ otRight = <<>>
  /\ otPc = {}
  /\ otXT = NoOp
  /\ otYT = NoOp

OTInit ==
  /\ otBase \in Texts(MaxLen)
  /\ otX \in InBoundsOps(otBase, 1, "u1")
  /\ otY \in InBoundsOps(otBase, 2, "u2")
  /\ otLeft = <<>>
  /\ otRight = <<>>
  /\ otPc = {}
  /\ otXT = NoOp
  /\ otYT = NoOp

\* the server received X first: X is applied, Y is transformed against X
ApplyXThenY ==
  /\ "left" \notin otPc
  /\ otLeft' = applyToContent(applyToContent(otBase, otX), transformAgainstOperation(otY, otX))
  /\ otPc' = otPc \cup {"left"}
  /\ UNCHANGED <<otBase, otX, otY, otRight, otXT, otYT>>
  /\ UNCHANGED <<rateVars, frontVars, tokenVars, serverVars, clientVars, gatewayVars>>

\* the server received Y first: Y is applied, X is transformed against Y
ApplyYThenX ==
  /\ "right" \notin otPc
  /\ otRight' = applyToContent(applyToContent(otBase, otY), transformAgainstOperation(otX, otY))
  /\ otPc' = otPc \cup {"right"}
  /\ UNCHANGED <<otBase, otX, otY, otLeft, otXT, otYT>>
  /\ UNCHANGED <<rateVars, frontVars, tokenVars, serverVars, clientVars, gatewayVars>>

OTNext == ApplyXThenY \/ ApplyYThenX

\* ------------------------------------------------------------------ server
Users == {User(s) : s \in Sockets}

\* the room a connection is put in when it connects (user:<id>)
UserRoom == "user"

\* a message emitted to a socket
Msg(event, entity, operationId, operation, v) ==
  [event |-> event, entity |-> entity, operationId |-> operationId,
   operation |-> operation, version |-> v]

\* getCurrentVersion and applyOperation call cacheUtils.getRedisValue and
\* cacheUtils.setRedisValue, and the cacheUtils object of database/redis.ts
\* has neither member: the module exports getRedisValue and setRedisValue
\* beside it. Both programs are covered. "bound": the two calls reach the
\* module's functions of those names, as the call sites are written to.
\* "missing": the object is used as exported, each call throws a TypeError.
HelperBuilds == {"bound", "missing"}

\* the state after both connections have been accepted: each is in its user
\* room only, no version key, no operation row, no presence key
ServerInit ==
  /\ redisHelpers \in HelperBuilds
  /\ version = [e \in Entities |-> 0]
  /\ operations = [e \in Entities |-> <<>>]
  /\ handlers = <<>>
  /\ outbox = [s \in Sockets |-> <<>>]
  /\ members = [e \in Entities |-> {}]
  /\ socketRooms = [s \in Sockets |-> <<UserRoom>>]
  /\ presence = [e \in Entities |-> [u \in Users |-> "absent"]]

\* getCurrentVersion: the cached version, 0 when the key is missing and 0
\* when the read throws
getCurrentVersion(e) == IF redisHelpers = "bound" THEN version[e] ELSE 0

\* validateOperation without the length test of delete operations
validateOperationAnyLength(operation) ==
  /\ operation.id # 0
  /\ operation.type \in {"insert", "delete", "retain", "format"}
  /\ operation.positionType = "number" /\ operation.position >= 0
  /\ (operation.type = "insert" => operation.content # <<>>)

\* validateOperation
validateOperation(operation) ==
  /\ operation.id # 0
  /\ operation.type \in {"insert", "delete", "retain", "format"}
  /\ operation.positionType = "number" /\ operation.position >= 0
  /\ (operation.type = "delete" => operation.length > 0)
  /\ (operation.type = "insert" => operation.content # <<>>)

\* getOperationsBetweenVersions: the body returns an empty array
getOperationsBetweenVersions(e, fromVersion, toVersion) == <<>>

RECURSIVE TransformAll(_, _)
\* the loop of transformOperation: the operation against each of ops in order
TransformAll(operation, ops) ==
  IF ops = <<>> THEN operation
  ELSE TransformAll(transformAgainstOperation(operation, Head(ops)), Tail(ops))

\* transformOperation
transformOperation(e, operation, fromVersion, toVersion) ==
  TransformAll(operation, getOperationsBetweenVersions(e, fromVersion, toVersion))

\* first index of x in seq, 0 when absent (Array.prototype.indexOf, plus one)
IndexOf(seq, x) ==
  IF \E i \in DOMAIN seq : seq[i] = x
  THEN CHOOSE i \in DOMAIN seq : seq[i] = x /\ \A j \in 1..(i - 1) : seq[j] # x
  ELSE 0

\* rooms.splice(index, 1)
RemoveAt(seq, i) == SubSeq(seq, 1, i - 1) \o SubSeq(seq, i + 1, Len(seq))

\* socket.on('join:entity'): join the room, track it, set presence to viewing;
\* the handler is followed while socket.data.rooms has at most cap entries
JoinEntityUpTo(s, e, cap) ==
  /\ Len(socketRooms[s]) <= cap
  /\ members' = [members EXCEPT ![e] = @ \cup {s}]
  /\ socketRooms' = [socketRooms EXCEPT ![s] = Append(@, e)]
  /\ presence' = [presence EXCEPT ![e][User(s)] = "viewing"]
  /\ UNCHANGED <<version, operations, handlers, outbox, redisHelpers>>
  /\ UNCHANGED <<otVars, rateVars, tokenVars, clientVars>>

\* join:entity within the cap on socket.data.rooms
JoinEntity(s, e) == JoinEntityUpTo(s, e, MaxRooms)

\* leave:entity without the call of removePresence
LeaveEntityKeepsPresence(s, e) ==
  /\ members' = [members EXCEPT ![e] = @ \ {s}]
  /\ socketRooms' = [socketRooms EXCEPT ![s] =
       IF IndexOf(@, e) > 0 THEN RemoveAt(@, IndexOf(@, e)) ELSE @]
  /\ presence' = presence
  /\ UNCHANGED <<version, operations, handlers, outbox, redisHelpers>>
  /\ UNCHANGED <<otVars, rateVars, tokenVars, clientVars>>

\* socket.on('leave:entity'): leave the room, untrack its first occurrence,
\* remove the presence key
LeaveEntity(s, e) ==
  /\ members' = [members EXCEPT ![e] = @ \ {s}]
  /\ socketRooms' = [socketRooms EXCEPT ![s] =
       IF IndexOf(@, e) > 0 THEN RemoveAt(@, IndexOf(@, e)) ELSE @]
  /\ presence' = [presence EXCEPT ![e][User(s)] = "absent"]
  /\ UNCHANGED <<version, operations, handlers, outbox, redisHelpers>>
  /\ UNCHANGED <<otVars, rateVars, tokenVars, clientVars>>

\* a handler invocation of socket.on('operation:send'). currentVersion,
\* transformedOperation and applyVersion (currentVersion inside applyOperation)
\* are its locals; between, storedVersion, sentVersion and doneBefore record
\* what it saw and did: the rows a transform against history would use, the
\* version key when applyOperation returned, the version it put in its
\* messages, the handlers that had finished when it was invoked, and whether
\* its transformOperation ended in its catch block.
NewHandler(s, e, operation, v, pc, cur) ==
  [socket |-> s, entity |-> e, operation |-> operation, version |-> v,
   pc |-> pc, currentVersion |-> cur, transformedOperation |-> NoOp,
   applyVersion |-> 0, between |-> <<>>, storedVersion |-> 0, sentVersion |-> 0,
   doneBefore |-> {i \in DOMAIN handlers : handlers[i].pc = "done"},
   transformFailed |-> FALSE]

\* operation:send arrives: validation, then the first version read is issued.
\* An invalid operation is answered with operation:error at once.
OnOperationSend(s, e, operation, v) ==
  /\ Len(handlers) < MaxSends
  /\ IF ~validateOperation(operation)
     THEN /\ handlers' = Append(handlers, NewHandler(s, e, operation, v, "error", 0))
          /\ outbox' = [outbox EXCEPT ![s] =
               Append(@, Msg("operation:error", e, operation.id, NoOp, 0))]
     ELSE /\ handlers' = Append(handlers,
               NewHandler(s, e, operation, v, "transform", getCurrentVersion(e)))
          /\ outbox' = outbox
  /\ UNCHANGED <<version, operations, members, socketRooms, presence, redisHelpers>>

\* the rows with sequence position fromVersion+1 .. toVersion of the entity
StoredBetween(e, fromVersion, toVersion) ==
  [i \in 1..(Min(toVersion, Len(operations[e])) - fromVersion) |->
     operations[e][fromVersion + i].operationData]

\* after the version read: transformOperation when the versions differ, then
\* applyOperation starts and issues its own version read
Transform(h) ==
  /\ handlers[h].pc = "transform"
  /\ LET d == handlers[h]
         t == IF d.version # d.currentVersion
              THEN transformOperation(d.entity, d.operation, d.version, d.currentVersion)
              ELSE d.operation
     IN handlers' = [handlers EXCEPT ![h].pc = "set",
                                     ![h].transformedOperation = t,
                                     ![h].between =
                                        StoredBetween(d.entity, d.version, d.currentVersion),
                                     ![h].applyVersion = getCurrentVersion(d.entity)]
  /\ UNCHANGED <<version, operations, outbox, members, socketRooms, presence, redisHelpers>>
  /\ UNCHANGED <<otVars, rateVars, frontVars, tokenVars, clientVars, gatewayVars>>

\* applyOperation with a version key that leaves out the entity
SetVersionSharedKey(h) ==
  /\ handlers[h].pc = "set"
  /\ IF redisHelpers = "bound"
     THEN /\ version' = [e \in Entities |-> handlers[h].applyVersion + 1]
          /\ handlers' = [handlers EXCEPT ![h].pc = "create"]
          /\ outbox' = outbox
     ELSE /\ version' = version
          /\ handlers' = [handlers EXCEPT ![h].pc = "error"]
          /\ outbox' = [outbox EXCEPT ![handlers[h].socket] =
               Append(@, Msg("operation:error", handlers[h].entity,
                             handlers[h].operation.id, NoOp, 0))]
  /\ UNCHANGED <<operations, members, socketRooms, presence, redisHelpers>>
  /\ UNCHANGED <<otVars, rateVars, frontVars, tokenVars, clientVars, gatewayVars>>

\* applyOperation: setRedisValue(key, currentVersion + 1). When the call
\* throws, applyOperation rethrows and the handler answers operation:error.
SetVersion(h) ==
  /\ handlers[h].pc = "set"
  /\ IF redisHelpers = "bound"
     THEN /\ version' = [version EXCEPT ![handlers[h].entity] = handlers[h].applyVersion + 1]
          /\ handlers' = [handlers EXCEPT ![h].pc = "create"]
          /\ outbox' = outbox
     ELSE /\ version' = version
          /\ handlers' = [handlers EXCEPT ![h].pc = "error"]
          /\ outbox' = [outbox EXCEPT ![handlers[h].socket] =
               Append(@, Msg("operation:error", handlers[h].entity,
                             handlers[h].operation.id, NoOp, 0))]
  /\ UNCHANGED <<operations, members, socketRooms, presence, redisHelpers>>
  /\ UNCHANGED <<otVars, rateVars, frontVars, tokenVars, clientVars, gatewayVars>>

\* applyOperation: prisma.operation.create with sequenceNumber currentVersion + 1
CreateOperation(h) ==
  /\ handlers[h].pc = "create"
  /\ LET d == handlers[h]
     IN /\ operations' = [operations EXCEPT ![d.entity] =
             Append(@, [operationData |-> d.transformedOperation,
                        userId |-> d.transformedOperation.userId,
                        sequenceNumber |-> d.applyVersion + 1])]
        /\ handlers' = [handlers EXCEPT ![h].pc = "emit",
                                        ![h].storedVersion = version[d.entity]]
  /\ UNCHANGED <<version, outbox, members, socketRooms, presence, redisHelpers>>
  /\ UNCHANGED <<otVars, rateVars, frontVars, tokenVars, clientVars, gatewayVars>>

\* after applyOperation: operation:receive to the rest of the room, then
\* operation:ack to the sender
Emit(h) ==
  /\ handlers[h].pc = "emit"
  /\ LET d == handlers[h]
         v == IF d.version # d.currentVersion THEN d.currentVersion + 1 ELSE d.version + 1
     IN /\ outbox' = [s \in Sockets |->
             IF s = d.socket
             THEN Append(outbox[s], Msg("operation:ack", d.entity, d.operation.id, NoOp, v))
             ELSE IF s \in members[d.entity]
             THEN Append(outbox[s],
                    Msg("operation:receive", d.entity, d.operation.id, d.transformedOperation, v))
             ELSE outbox[s]]
        /\ handlers' = [handlers EXCEPT ![h].pc = "done", ![h].sentVersion = v]
  /\ UNCHANGED <<version, operations, members, socketRooms, presence, redisHelpers>>
  /\ UNCHANGED <<otVars, rateVars, frontVars, tokenVars, clientVars, gatewayVars>>

\* the operations a raw operation:send of socket s may carry
RawOperations(s) ==
  {MkOp(1, "insert", p, 0, Typed(User(s)), User(s), 1) : p \in 0..MaxPos}
  \cup {MkOp(2, "delete", 0, 1, <<>>, User(s), 1),
        MkOp(2, "delete", 0, 0, <<>>, User(s), 1)}

\* a connection submits an operation with a client version of its choice
Submit(s, e, operation, v) ==
  /\ OnOperationSend(s, e, operation, v)
  /\ UNCHANGED <<otVars, rateVars, frontVars, tokenVars, clientVars, gatewayVars>>

ClientIdle ==
  /\ inbox = [s \in Sockets |-> <<>>]
  /\ clContent = [s \in Sockets |-> <<>>]
  /\ clVersion = [s \in Sockets |-> 0]
  /\ clLocalOps = [s \in Sockets |-> <<>>]
  /\ clAwaiting = [s \in Sockets |-> {}]
  /\ clEdits = [s \in Sockets |-> 0]

\* what socket.handshake carries and what the user lookup finds behind it
Tokens == {"none", "invalid", "valid"}

Accounts == {"missing", "inactive", "active"}

Handshake(token, account) == [token |-> token, account |-> account]

\* an event handled by the gateway: a message of a socket, or the expiry of a key
Ev(event, s, e, u) == [event |-> event, socket |-> s, entity |-> e, userId |-> u]

NoEvent == Ev("none", "none", "none", "none")

\* an entry of the presences list of a client; status "none" stands for no entry
Shown(status, isOnline) == [status |-> status, isOnline |-> isOnline]

NoPresence == Shown("none", FALSE)

\* both connections have been accepted, nothing has been emitted or shown
GatewayIdle ==
  /\ conn = [s \in Sockets |-> "connected"]
  /\ handshake = [s \in Sockets |-> Handshake("valid", "active")]
  /\ events = [s \in Sockets |-> <<>>]
  /\ shown = [s \in Sockets |-> [u \in Users |-> NoPresence]]
  /\ lastEvent = NoEvent

\* the identifiers (req.ip) the clients of the authentication endpoints have
Identifiers == {"ip1", "ip2"}

\* the authRateLimit map has no record of an identifier
NoRecord == [count |-> 0, lastAttempt |-> 0]

\* the clock at 0, an empty authRateLimit map, no request handled
RateIdle ==
  /\ now = 0
  /\ authRateLimit = [i \in Identifiers |-> NoRecord]
  /\ attemptLog = [i \in Identifiers |-> <<>>]

\* the PresenceIndicator of a client: mounted is "no" before it is rendered,
\* "yes" while it is, "gone" once it has been unmounted
Indicator(mounted, isHovered) == [mounted |-> mounted, isHovered |-> isHovered]

\* the tokens createTokenPair signs for a user in one second: jwt.sign puts
\* the payload and iat (seconds) into the token, so the same user and second
\* give the same two strings
Pair(u, t) == [userId |-> u, iat |-> t]

\* no token (null)
NoPair == Pair("none", 0)

\* the auth slice: user is "null" or the id of a user, tokens is NoPair (null)
\* or an access token and a refresh token
AuthState(user, tokens, isAuthenticated) ==
  [user |-> user, tokens |-> tokens, isAuthenticated |-> isAuthenticated]

\* initialState of the auth slice
initialState == AuthState("null", NoPair, FALSE)

\* localStorage with the keys accessToken, refreshToken and user removed
NoStorage == [user |-> "null", tokens |-> NoPair]

\* a useSocket instance before its component is rendered
HookIdle ==
  [mounted |-> "no", socketRef |-> 0, sockets |-> <<>>, pending |-> NoPair,
   timer |-> NoPair, newTokens |-> NoPair]

\* no component has been rendered, no message is on its way
FrontIdle ==
  /\ indicator = [s \in Sockets |-> Indicator("no", FALSE)]
  /\ emitted = [s \in Sockets |-> <<>>]
  /\ auth = initialState
  /\ storage = NoStorage
  /\ hook = HookIdle

\* the calls of refreshTokens that may run at the same time
Calls == {"c1", "c2"}

\* a call of refreshTokens: the token it was given, what getStoredRefreshToken
\* returned to it, and the pair it returned
Call(pc, token, stored, tokens) ==
  [pc |-> pc, token |-> token, stored |-> stored, tokens |-> tokens]

\* no refresh token is stored, no call of refreshTokens is running
TokenIdle ==
  /\ storedRefreshToken = [u \in Users |-> NoPair]
  /\ refreshCalls = [c \in Calls |-> Call("idle", NoPair, NoPair, NoPair)]

Init == OTIdle /\ ServerInit /\ ClientIdle /\ GatewayIdle /\ RateIdle /\ FrontIdle /\ TokenIdle

Next ==
  \/ \E s \in Sockets, e \in Entities : JoinEntity(s, e) /\ UNCHANGED <<frontVars, gatewayVars>>
  \/ \E s \in Sockets, e \in Entities : LeaveEntity(s, e) /\ UNCHANGED <<frontVars, gatewayVars>>
  \/ \E s \in Sockets, e \in Entities, v \in 0..MaxVersion :
       \E operation \in RawOperations(s) : Submit(s, e, operation, v)
  \/ \E h \in DOMAIN handlers : Transform(h)
  \/ \E h \in DOMAIN handlers : SetVersion(h)
  \/ \E h \in DOMAIN handlers : CreateOperation(h)
  \/ \E h \in DOMAIN handlers : Emit(h)

Spec == Init /\ [][Next]_vars

InitOT == OTInit /\ ServerInit /\ ClientIdle /\ GatewayIdle /\ RateIdle /\ FrontIdle /\ TokenIdle

SpecOT == InitOT /\ [][OTNext]_vars

\* ------------------------------------------------------------------ pairwise rules
\* the insert and delete operations of user u that validateOperation lets
\* through, whatever the text they are meant for
RuleOps(id, u) ==
  {MkOp(id, "insert", p, 0, Typed(u), u, 1) : p \in 0..(MaxLen + 1)}
  \cup
  {MkOp(id, "delete", p, l, <<>>, u, 1) : p \in 0..(MaxLen + 1), l \in 1..(MaxLen + 1)}

RulesInit ==
  /\ otBase = <<>>
  /\ otX \in RuleOps(1, "u1")
  /\ otY \in RuleOps(2, "u2")
  /\ otLeft = <<>>
  /\ otRight = <<>>
  /\ otPc = {}
  /\ otXT = NoOp
  /\ otYT = NoOp

\* Y was applied first: X is transformed against Y
TransformXAgainstY ==
  /\ otXT = NoOp
  /\ otXT' = transformAgainstOperation(otX, otY)
  /\ UNCHANGED <<otBase, otX, otY, otLeft, otRight, otPc, otYT>>
  /\ UNCHANGED <<rateVars, frontVars, tokenVars, serverVars, clientVars, gatewayVars>>

\* X was applied first: Y is transformed against X
TransformYAgainstX ==
  /\ otYT = NoOp
  /\ otYT' = transformAgainstOperation(otY, otX)
  /\ UNCHANGED <<otBase, otX, otY, otLeft, otRight, otPc, otXT>>
  /\ UNCHANGED <<rateVars, frontVars, tokenVars, serverVars, clientVars, gatewayVars>>

RulesNext == TransformXAgainstY \/ TransformYAgainstX

InitRules == RulesInit /\ ServerInit /\ ClientIdle /\ GatewayIdle /\ RateIdle /\ FrontIdle /\ TokenIdle

SpecRules == InitRules /\ [][RulesNext]_vars

\* ------------------------------------------------------------------ OT client
\* the entity the OT clients edit
ClientEntity == "e1"

\* position of a socket among the clients, for operation ids
SocketIndex(s) == IF s = "s1" THEN 1 ELSE 2

\* id of the n-th local operation of the client on socket s
ClientOpId(s, n) == 2 * (n - 1) + SocketIndex(s)

\* both clients have opened the entity: they are in its room, the room is
\* tracked and their presence is viewing
JoinedInit ==
  /\ redisHelpers \in HelperBuilds
  /\ version = [e \in Entities |-> 0]
  /\ operations = [e \in Entities |-> <<>>]
  /\ handlers = <<>>
  /\ outbox = [s \in Sockets |-> <<>>]
  /\ members = [e \in Entities |-> IF e = ClientEntity THEN Sockets ELSE {}]
  /\ socketRooms = [s \in Sockets |-> <<UserRoom, ClientEntity>>]
  /\ presence = [e \in Entities |->
                   [u \in Users |-> IF e = ClientEntity THEN "viewing" ELSE "absent"]]

\* new OTClient(socket, entityId, entityType, initialContent), same text for all
ClientInit ==
  /\ inbox = [s \in Sockets |-> <<>>]
  /\ \E base \in Texts(MaxLen) : clContent = [s \in Sockets |-> base]
  /\ clVersion = [s \in Sockets |-> 0]
  /\ clLocalOps = [s \in Sockets |-> <<>>]
  /\ clAwaiting = [s \in Sockets |-> {}]
  /\ clEdits = [s \in Sockets |-> 0]

\* OTClient.applyLocalOperation: queue, apply locally, sendOperation
applyLocalOperation(s, operation) ==
  /\ clEdits[s] < MaxEdits
  /\ clLocalOps' = [clLocalOps EXCEPT ![s] = Append(@, operation)]
  /\ clContent' = [clContent EXCEPT ![s] = applyToContent(@, operation)]
  /\ inbox' = [inbox EXCEPT ![s] =
       Append(@, [entity |-> ClientEntity, operation |-> operation, version |-> clVersion[s]])]
  /\ clAwaiting' = [clAwaiting EXCEPT ![s] = @ \cup {operation.id}]
  /\ clEdits' = [clEdits EXCEPT ![s] = @ + 1]
  /\ UNCHANGED clVersion
  /\ UNCHANGED <<otVars, rateVars, frontVars, tokenVars, serverVars, gatewayVars>>

\* the server receives the next operation:send of a client
Deliver(s) ==
  /\ inbox[s] # <<>>
  /\ OnOperationSend(s, Head(inbox[s]).entity, Head(inbox[s]).operation, Head(inbox[s]).version)
  /\ inbox' = [inbox EXCEPT ![s] = Tail(@)]
  /\ UNCHANGED <<clContent, clVersion, clLocalOps, clAwaiting, clEdits>>
  /\ UNCHANGED <<otVars, rateVars, frontVars, tokenVars, gatewayVars>>

RECURSIVE TransformLocal(_, _)
\* the loop of handleRemoteOperation: against each local operation of another user
TransformLocal(operation, locals) ==
  IF locals = <<>> THEN operation
  ELSE TransformLocal(
         IF Head(locals).userId # operation.userId
         THEN transform(operation, Head(locals))
         ELSE operation,
         Tail(locals))

\* OTClient.handleRemoteOperation
handleRemoteOperation(s) ==
  /\ outbox[s] # <<>>
  /\ Head(outbox[s]).event = "operation:receive"
  /\ LET data == Head(outbox[s])
         operation == TransformLocal(data.operation, clLocalOps[s])
     IN /\ clContent' = [clContent EXCEPT ![s] = applyToContent(@, operation)]
        /\ clVersion' = [clVersion EXCEPT ![s] = data.version]
  /\ outbox' = [outbox EXCEPT ![s] = Tail(@)]
  /\ UNCHANGED <<inbox, clLocalOps, clAwaiting, clEdits>>
  /\ UNCHANGED <<version, operations, handlers, members, socketRooms, presence, redisHelpers>>
  /\ UNCHANGED <<otVars, rateVars, frontVars, tokenVars, gatewayVars>>

\* index of the first operation with this id, 0 when absent (findIndex, plus one)
FindIndexById(ops, id) ==
  IF \E i \in DOMAIN ops : ops[i].id = id
  THEN CHOOSE i \in DOMAIN ops : ops[i].id = id /\ \A j \in 1..(i - 1) : ops[j].id # id
  ELSE 0

\* OTClient.handleOperationAck
handleOperationAck(s) ==
  /\ outbox[s] # <<>>
  /\ Head(outbox[s]).event = "operation:ack"
  /\ LET id == Head(outbox[s]).operationId
     IN IF id \in clAwaiting[s]
        THEN /\ clAwaiting' = [clAwaiting EXCEPT ![s] = @ \ {id}]
             /\ clLocalOps' = [clLocalOps EXCEPT ![s] =
                  IF FindIndexById(@, id) > 0 THEN RemoveAt(@, FindIndexById(@, id)) ELSE @]
        ELSE UNCHANGED <<clAwaiting, clLocalOps>>
  /\ outbox' = [outbox EXCEPT ![s] = Tail(@)]
  /\ UNCHANGED <<inbox, clContent, clVersion, clEdits>>
  /\ UNCHANGED <<version, operations, handlers, members, socketRooms, presence, redisHelpers>>
  /\ UNCHANGED <<otVars, rateVars, frontVars, tokenVars, gatewayVars>>

\* operation:error reaches a client that registered no listener for it
ignoreOperationError(s) ==
  /\ outbox[s] # <<>>
  /\ Head(outbox[s]).event = "operation:error"
  /\ outbox' = [outbox EXCEPT ![s] = Tail(@)]
  /\ UNCHANGED <<version, operations, handlers, members, socketRooms, presence, redisHelpers>>
  /\ UNCHANGED <<otVars, rateVars, frontVars, tokenVars, clientVars, gatewayVars>>

\* the edits a user can make on the text the client shows
LocalEdits(s) ==
  {MkOp(ClientOpId(s, clEdits[s] + 1), "insert", p, 0, Typed(User(s)), User(s), 1) :
     p \in 0..Len(clContent[s])}
  \cup
  {MkOp(ClientOpId(s, clEdits[s] + 1), "delete", p, 1, <<>>, User(s), 1) :
     p \in 0..(Len(clContent[s]) - 1)}

ClientNext ==
  \/ \E s \in Sockets : \E operation \in LocalEdits(s) : applyLocalOperation(s, operation)
  \/ \E s \in Sockets : Deliver(s)
  \/ \E h \in DOMAIN handlers : Transform(h)
  \/ \E h \in DOMAIN handlers : SetVersion(h)
  \/ \E h \in DOMAIN handlers : CreateOperation(h)
  \/ \E h \in DOMAIN handlers : Emit(h)
  \/ \E s \in Sockets : handleRemoteOperation(s)
  \/ \E s \in Sockets : handleOperationAck(s)
  \/ \E s \in Sockets : ignoreOperationError(s)

InitClient == OTIdle /\ JoinedInit /\ ClientInit /\ GatewayIdle /\ RateIdle /\ FrontIdle /\ TokenIdle

SpecClient == InitClient /\ [][ClientNext]_vars

\* ------------------------------------------------------------------ gateway
\* the statuses a presence:update carries
Statuses == {"viewing", "editing"}

\* the middleware without the isActive test of the user
AuthenticatedAnyAccount(token, account) ==
  /\ token # "none"
  /\ token = "valid"
  /\ account # "missing"

\* the middleware of io.use lets a connection through: there is a token,
\* jwt.verify accepts it, the user exists and is active
Authenticated(token, account) ==
  /\ token # "none"
  /\ token = "valid"
  /\ account = "active"

\* no connection has been attempted yet
GatewayInit ==
  /\ redisHelpers \in HelperBuilds
  /\ version = [e \in Entities |-> 0]
  /\ operations = [e \in Entities |-> <<>>]
  /\ handlers = <<>>
  /\ outbox = [s \in Sockets |-> <<>>]
  /\ members = [e \in Entities |-> {}]
  /\ socketRooms = [s \in Sockets |-> <<>>]
  /\ presence = [e \in Entities |-> [u \in Users |-> "absent"]]
  /\ conn = [s \in Sockets |-> "new"]
  /\ handshake = [s \in Sockets |-> Handshake("none", "missing")]
  /\ events = [s \in Sockets |-> <<>>]
  /\ shown = [s \in Sockets |-> [u \in Users |-> NoPresence]]
  /\ lastEvent = NoEvent

\* a connection attempt: the middleware, and on success the connection
\* handler, which joins the user room and tracks it
Connect(s, token, account) ==
  /\ conn[s] = "new"
  /\ handshake' = [handshake EXCEPT ![s] = Handshake(token, account)]
  /\ IF Authenticated(token, account)
     THEN /\ conn' = [conn EXCEPT ![s] = "connected"]
          /\ socketRooms' = [socketRooms EXCEPT ![s] = <<UserRoom>>]
          /\ lastEvent' = Ev("connection", s, "none", User(s))
     ELSE /\ conn' = [conn EXCEPT ![s] = "rejected"]
          /\ socketRooms' = socketRooms
          /\ lastEvent' = Ev("connect_error", s, "none", User(s))
  /\ UNCHANGED <<version, operations, handlers, outbox, members, presence, redisHelpers>>
  /\ UNCHANGED <<events, shown>>
  /\ UNCHANGED <<otVars, rateVars, frontVars, tokenVars, clientVars>>

\* the server handles join:entity of a connection: the handler exists once
\* io.on('connection') ran
HandleJoinEntity(s, e) ==
  /\ conn[s] = "connected"
  /\ JoinEntity(s, e)
  /\ lastEvent' = Ev("join:entity", s, e, User(s))
  /\ UNCHANGED <<conn, handshake, events, shown>>

\* join:entity of a connection, sent and handled in one step
OnJoinEntity(s, e) ==
  /\ HandleJoinEntity(s, e)
  /\ UNCHANGED frontVars

\* the server handles leave:entity of a connection
HandleLeaveEntity(s, e) ==
  /\ conn[s] = "connected"
  /\ LeaveEntity(s, e)
  /\ lastEvent' = Ev("leave:entity", s, e, User(s))
  /\ UNCHANGED <<conn, handshake, events, shown>>

\* leave:entity of a connection, sent and handled in one step
OnLeaveEntity(s, e) ==
  /\ HandleLeaveEntity(s, e)
  /\ UNCHANGED frontVars

\* an event emitted to the sockets of a room
PresenceEvent(event, e, u, status) ==
  [event |-> event, entity |-> e, userId |-> u, status |-> status]

\* socket.on('presence:update'): updatePresence, then presence:updated to the
\* rest of the room
HandlePresenceUpdate(s, e, status) ==
  /\ conn[s] = "connected"
  /\ \A r \in members[e] \ {s} : Len(events[r]) < MaxEvents
  /\ presence' = [presence EXCEPT ![e][User(s)] = status]
  /\ events' = [r \in Sockets |->
       IF r \in members[e] \ {s}
       THEN Append(events[r], PresenceEvent("presence:updated", e, User(s), status))
       ELSE events[r]]
  /\ lastEvent' = Ev("presence:update", s, e, User(s))
  /\ UNCHANGED <<version, operations, handlers, outbox, members, socketRooms, redisHelpers>>
  /\ UNCHANGED <<conn, handshake, shown>>
  /\ UNCHANGED <<otVars, rateVars, tokenVars, clientVars>>

\* presence:update that writes the key only when it does not exist
OnPresenceUpdateFirstWins(s, e, status) ==
  /\ conn[s] = "connected"
  /\ \A r \in members[e] \ {s} : Len(events[r]) < MaxEvents
  /\ presence' = [presence EXCEPT ![e][User(s)] = IF @ = "absent" THEN status ELSE @]
  /\ events' = [r \in Sockets |->
       IF r \in members[e] \ {s}
       THEN Append(events[r], PresenceEvent("presence:updated", e, User(s), status))
       ELSE events[r]]
  /\ lastEvent' = Ev("presence:update", s, e, User(s))
  /\ UNCHANGED <<version, operations, handlers, outbox, members, socketRooms, redisHelpers>>
  /\ UNCHANGED <<conn, handshake, shown>>
  /\ UNCHANGED <<otVars, rateVars, frontVars, tokenVars, clientVars>>

\* presence:update of a connection, sent and handled in one step
OnPresenceUpdate(s, e, status) ==
  /\ HandlePresenceUpdate(s, e, status)
  /\ UNCHANGED frontVars

\* the Redis key of a presence entry, by its segments: updatePresence builds
\* presence:<entity>:<user> and cacheUserSession puts session: in front
PresenceKey(e, u) == <<"session", "presence", e, u>>

\* the pattern cleanupPresence hands to invalidateCachePattern
CleanupPattern(u) == <<"presence", "*", u>>

RECURSIVE GlobMatch(_, _)
\* KEYS matches the pattern against the whole key; "*" stands for any run of
\* one or more segments
GlobMatch(pattern, key) ==
  IF pattern = <<>> THEN key = <<>>
  ELSE IF key = <<>> THEN FALSE
  ELSE IF Head(pattern) = "*"
  THEN GlobMatch(Tail(pattern), Tail(key)) \/ GlobMatch(pattern, Tail(key))
  ELSE Head(pattern) = Head(key) /\ GlobMatch(Tail(pattern), Tail(key))

RECURSIVE DisconnectedEvents(_, _, _)
\* the user:disconnected events socket r gets when s disconnects: one for
\* each entry of socket.data.rooms of s that is a room r is in
DisconnectedEvents(rooms, s, r) ==
  IF rooms = <<>> THEN <<>>
  ELSE (IF Head(rooms) \in Entities /\ r \in members[Head(rooms)] \ {s}
        THEN <<PresenceEvent("user:disconnected", Head(rooms), User(s), "none")>>
        ELSE <<>>)
       \o DisconnectedEvents(Tail(rooms), s, r)

\* socket.on('disconnect'): the socket has left its rooms; cleanupPresence
\* deletes the keys its pattern matches; user:disconnected goes to the rooms
\* of socket.data.rooms
OnDisconnect(s) ==
  /\ conn[s] = "connected"
  /\ conn' = [conn EXCEPT ![s] = "disconnected"]
  /\ members' = [e \in Entities |-> members[e] \ {s}]
  /\ presence' = [e \in Entities |-> [u \in Users |->
       IF GlobMatch(CleanupPattern(User(s)), PresenceKey(e, u))
       THEN "absent"
       ELSE presence[e][u]]]
  /\ events' = [r \in Sockets |-> events[r] \o DisconnectedEvents(socketRooms[s], s, r)]
  /\ lastEvent' = Ev("disconnect", s, "none", User(s))
  /\ UNCHANGED <<version, operations, handlers, outbox, socketRooms, redisHelpers>>
  /\ UNCHANGED <<handshake, shown>>
  /\ UNCHANGED <<otVars, rateVars, frontVars, tokenVars, clientVars>>

\* the TTL of a presence key (setEx 300) runs out: Redis drops the key
ExpirePresence(e, u) ==
  /\ presence[e][u] # "absent"
  /\ presence' = [presence EXCEPT ![e][u] = "absent"]
  /\ lastEvent' = Ev("expire", "none", e, u)
  /\ UNCHANGED <<version, operations, handlers, outbox, members, socketRooms, redisHelpers>>
  /\ UNCHANGED <<conn, handshake, events, shown>>
  /\ UNCHANGED <<otVars, rateVars, frontVars, tokenVars, clientVars>>

\* operation:send of a connection
OnOperation(s, e, operation, v) ==
  /\ conn[s] = "connected"
  /\ Submit(s, e, operation, v)

\* the insert of its user's text at the start of the text
TypedInsert(s) == MkOp(1, "insert", 0, 0, Typed(User(s)), User(s), 1)

\* connections are attempted with any credentials; the accepted ones use the
\* handlers of the gateway
AuthNext ==
  \/ \E s \in Sockets, token \in Tokens, account \in Accounts : Connect(s, token, account)
  \/ \E s \in Sockets : OnJoinEntity(s, ClientEntity)
  \/ \E s \in Sockets : OnLeaveEntity(s, ClientEntity)
  \/ \E s \in Sockets : OnPresenceUpdate(s, ClientEntity, "editing")
  \/ \E s \in Sockets : OnOperation(s, ClientEntity, TypedInsert(s), 0)
  \/ \E h \in DOMAIN handlers : Transform(h)
  \/ \E h \in DOMAIN handlers : SetVersion(h)
  \/ \E h \in DOMAIN handlers : CreateOperation(h)
  \/ \E h \in DOMAIN handlers : Emit(h)
  \/ \E s \in Sockets : OnDisconnect(s)

InitAuth == OTIdle /\ GatewayInit /\ ClientIdle /\ RateIdle /\ FrontIdle /\ TokenIdle

SpecAuth == InitAuth /\ [][AuthNext]_vars

\* two accepted connections join and leave entities, update their presence
\* and disconnect, while presence keys run out
GatewayNext ==
  \/ \E s \in Sockets, e \in Entities : OnJoinEntity(s, e)
  \/ \E s \in Sockets, e \in Entities : OnLeaveEntity(s, e)
  \/ \E s \in Sockets, e \in Entities, status \in Statuses : OnPresenceUpdate(s, e, status)
  \/ \E s \in Sockets : OnDisconnect(s)
  \/ \E e \in Entities, u \in Users : ExpirePresence(e, u)

SpecGateway == Init /\ [][GatewayNext]_vars

\* both connections join and leave both entities, s1 updates its presence
\* there, s2 sends operations to them; the handlers interleave
EntitiesNext ==
  \/ \E s \in Sockets, e \in Entities : OnJoinEntity(s, e)
  \/ \E s \in Sockets, e \in Entities : OnLeaveEntity(s, e)
  \/ \E e \in Entities : OnPresenceUpdate("s1", e, "editing")
  \/ \E e \in Entities : OnOperation("s2", e, TypedInsert("s2"), 0)
  \/ \E h \in DOMAIN handlers : Transform(h)
  \/ \E h \in DOMAIN handlers : SetVersion(h)
  \/ \E h \in DOMAIN handlers : CreateOperation(h)
  \/ \E h \in DOMAIN handlers : Emit(h)

SpecEntities == Init /\ [][EntitiesNext]_vars

\* two accepted connections open the entity or not, and send it presence
\* updates and operations either way; no connection leaves a room
AccessNext ==
  \/ \E s \in Sockets : OnJoinEntity(s, ClientEntity)
  \/ \E s \in Sockets, status \in Statuses : OnPresenceUpdate(s, ClientEntity, status)
  \/ \E s \in Sockets : OnOperation(s, ClientEntity, TypedInsert(s), 0)
  \/ \E h \in DOMAIN handlers : Transform(h)
  \/ \E h \in DOMAIN handlers : SetVersion(h)
  \/ \E h \in DOMAIN handlers : CreateOperation(h)
  \/ \E h \in DOMAIN handlers : Emit(h)

SpecAccess == Init /\ [][AccessNext]_vars

\* ------------------------------------------------------------------ presence list of the client
\* PresenceIndicator, handlePresenceUpdated: replace or add the entry of the user
handlePresenceUpdated(s) ==
  /\ conn[s] = "connected"
  /\ events[s] # <<>>
  /\ Head(events[s]).event = "presence:updated"
  /\ shown' = [shown EXCEPT ![s][Head(events[s]).userId] =
       Shown(Head(events[s]).status, TRUE)]
  /\ events' = [events EXCEPT ![s] = Tail(@)]
  /\ lastEvent' = Ev("presence:updated", s, Head(events[s]).entity, Head(events[s]).userId)
  /\ UNCHANGED <<conn, handshake>>
  /\ UNCHANGED <<otVars, rateVars, frontVars, tokenVars, serverVars, clientVars>>

\* PresenceIndicator, handleUserDisconnected: the entry of the user, if there
\* is one, goes offline
handleUserDisconnected(s) ==
  /\ conn[s] = "connected"
  /\ events[s] # <<>>
  /\ Head(events[s]).event = "user:disconnected"
  /\ shown' = [shown EXCEPT ![s][Head(events[s]).userId] =
       IF @ = NoPresence THEN @ ELSE Shown(@.status, FALSE)]
  /\ events' = [events EXCEPT ![s] = Tail(@)]
  /\ lastEvent' = Ev("user:disconnected", s, Head(events[s]).entity, Head(events[s]).userId)
  /\ UNCHANGED <<conn, handshake>>
  /\ UNCHANGED <<otVars, rateVars, frontVars, tokenVars, serverVars, clientVars>>

\* both users open the entity and keep their connections or drop them; the
\* events the server emits reach the presence lists
PresenceNext ==
  \/ \E s \in Sockets : OnJoinEntity(s, ClientEntity)
  \/ \E s \in Sockets, status \in Statuses : OnPresenceUpdate(s, ClientEntity, status)
  \/ \E s \in Sockets : OnDisconnect(s)
  \/ \E s \in Sockets : handlePresenceUpdated(s)
  \/ \E s \in Sockets : handleUserDisconnected(s)

\* an event emitted to a connected client is handled by its listener
PresenceFairness ==
  \A s \in Sockets :
    /\ WF_vars(handlePresenceUpdated(s))
    /\ WF_vars(handleUserDisconnected(s))

SpecPresence == Init /\ [][PresenceNext]_vars /\ PresenceFairness

\* ------------------------------------------------------------------ PresenceIndicator
\* a message the component emits on the socket
Emitted(event, e, status) == [event |-> event, entity |-> e, status |-> status]

\* the component is rendered: the first effect emits join:entity, the second
\* emits nothing while isHovered is false
Mount(s) ==
  /\ indicator[s].mounted = "no"
  /\ indicator' = [indicator EXCEPT ![s] = Indicator("yes", FALSE)]
  /\ emitted' = [emitted EXCEPT ![s] = Append(@, Emitted("join:entity", ClientEntity, "none"))]
  /\ UNCHANGED <<auth, storage, hook>>
  /\ UNCHANGED <<otVars, rateVars, tokenVars, serverVars, clientVars, gatewayVars>>

\* onMouseEnter / onMouseLeave change isHovered: the cleanup of the second
\* effect emits presence:update viewing, then the effect runs again and emits
\* presence:update editing when isHovered is true
SetIsHovered(s, hovered) ==
  /\ indicator[s].mounted = "yes"
  /\ Len(emitted[s]) + 2 <= MaxEmitted
  /\ indicator[s].isHovered # hovered
  /\ indicator' = [indicator EXCEPT ![s] = Indicator("yes", hovered)]
  /\ emitted' = [emitted EXCEPT ![s] =
       @ \o <<Emitted("presence:update", ClientEntity, "viewing")>>
         \o (IF hovered
             THEN <<Emitted("presence:update", ClientEntity, "editing")>>
             ELSE <<>>)]
  /\ UNCHANGED <<auth, storage, hook>>
  /\ UNCHANGED <<otVars, rateVars, tokenVars, serverVars, clientVars, gatewayVars>>

\* the component unmounts: the cleanups run in the order of the effects, the
\* first emits leave:entity, the second emits presence:update viewing
Unmount(s) ==
  /\ indicator[s].mounted = "yes"
  /\ Len(emitted[s]) + 2 <= MaxEmitted
  /\ indicator' = [indicator EXCEPT ![s] = Indicator("gone", @.isHovered)]
  /\ emitted' = [emitted EXCEPT ![s] =
       @ \o <<Emitted("leave:entity", ClientEntity, "none"),
              Emitted("presence:update", ClientEntity, "viewing")>>]
  /\ UNCHANGED <<auth, storage, hook>>
  /\ UNCHANGED <<otVars, rateVars, tokenVars, serverVars, clientVars, gatewayVars>>

\* the server handles the next message of a client
Receive(s) ==
  /\ emitted[s] # <<>>
  /\ LET m == Head(emitted[s])
     IN CASE m.event = "join:entity" -> HandleJoinEntity(s, m.entity)
          [] m.event = "leave:entity" -> HandleLeaveEntity(s, m.entity)
          [] OTHER -> HandlePresenceUpdate(s, m.entity, m.status)
  /\ emitted' = [emitted EXCEPT ![s] = Tail(@)]
  /\ UNCHANGED <<indicator, auth, storage, hook>>

\* an event reaches a client whose component has removed its listeners
NoListener(s) ==
  /\ indicator[s].mounted # "yes"
  /\ events[s] # <<>>
  /\ events' = [events EXCEPT ![s] = Tail(@)]
  /\ lastEvent' = Ev("dropped", s, Head(events[s]).entity, Head(events[s]).userId)
  /\ UNCHANGED <<conn, handshake, shown>>
  /\ UNCHANGED <<otVars, rateVars, frontVars, tokenVars, serverVars, clientVars>>

\* both clients render the component, hover over it and unmount it; the
\* server handles their messages in the order they were emitted
UnmountNext ==
  \/ \E s \in Sockets : Mount(s)
  \/ \E s \in Sockets, hovered \in BOOLEAN : SetIsHovered(s, hovered)
  \/ \E s \in Sockets : Unmount(s)
  \/ \E s \in Sockets : Receive(s)
  \/ \E s \in Sockets : indicator[s].mounted = "yes" /\ handlePresenceUpdated(s)
  \/ \E s \in Sockets : NoListener(s)

SpecUnmount == Init /\ [][UnmountNext]_vars

\* ------------------------------------------------------------------ tracked rooms
\* s1 joins the entity, possibly a second time (one more entry of
\* socket.data.rooms is followed), and leaves it; s2 joins it once; both may
\* disconnect
RoomsNext ==
  \/ /\ conn["s1"] = "connected"
     /\ JoinEntityUpTo("s1", ClientEntity, MaxRooms + 1)
     /\ lastEvent' = Ev("join:entity", "s1", ClientEntity, User("s1"))
     /\ UNCHANGED <<conn, handshake, events, shown>>
     /\ UNCHANGED frontVars
  \/ OnJoinEntity("s2", ClientEntity)
  \/ \E s \in Sockets : OnLeaveEntity(s, ClientEntity)
  \/ \E s \in Sockets, status \in Statuses : OnPresenceUpdate(s, ClientEntity, status)
  \/ \E s \in Sockets : handlePresenceUpdated(s)
  \/ \E s \in Sockets : handleUserDisconnected(s)
  \/ \E s \in Sockets : OnDisconnect(s)

SpecRooms == Init /\ [][RoomsNext]_vars

\* ------------------------------------------------------------------ validation
\* operations validateOperation has to turn down: no id, an unknown type, a
\* negative position, a position that is no number, a delete of no or of
\* negative length, an insert of nothing
MalformedOperations(s) ==
  {MkOp(0, "insert", 0, 0, Typed(User(s)), User(s), 1),
   MkOp(3, "move", 0, 0, Typed(User(s)), User(s), 1),
   MkOp(3, "insert", -1, 0, Typed(User(s)), User(s), 1),
   [MkOp(3, "insert", 0, 0, Typed(User(s)), User(s), 1) EXCEPT !.positionType = "string"],
   MkOp(3, "delete", 0, 0, <<>>, User(s), 1),
   MkOp(3, "delete", 0, -1, <<>>, User(s), 1),
   MkOp(3, "insert", 0, 0, <<>>, User(s), 1)}

\* operations validateOperation lets through
WellFormedOperations(s) ==
  {TypedInsert(s),
   MkOp(2, "delete", 0, 1, <<>>, User(s), 1),
   MkOp(4, "retain", 0, 0, <<>>, User(s), 1)}

\* both connections send malformed operations, and well-formed ones at any
\* client version, for the entity they opened
ValidateNext ==
  \/ \E s \in Sockets : \E operation \in MalformedOperations(s) :
       Submit(s, ClientEntity, operation, 0)
  \/ \E s \in Sockets, v \in 0..MaxVersion : Submit(s, ClientEntity, TypedInsert(s), v)
  \/ \E h \in DOMAIN handlers : Transform(h)
  \/ \E h \in DOMAIN handlers : SetVersion(h)
  \/ \E h \in DOMAIN handlers : CreateOperation(h)
  \/ \E h \in DOMAIN handlers : Emit(h)

InitValidate == OTIdle /\ JoinedInit /\ ClientIdle /\ GatewayIdle /\ RateIdle /\ FrontIdle /\ TokenIdle

SpecValidate == InitValidate /\ [][ValidateNext]_vars

\* ------------------------------------------------------------------ failing storage
\* the i-th operation applied to the entity before the behaviour starts
PastOperation(i) == MkOp(4 + i, "insert", 0, 0, Typed("u1"), "u1", 1)

\* the rows of the first n operations of the entity
History(n) ==
  [i \in 1..n |-> [operationData |-> PastOperation(i), userId |-> "u1", sequenceNumber |-> i]]

\* both connections have opened the entity, which has been edited before:
\* its version is the number of its rows. Without setRedisValue no operation
\* can have been applied.
FaultInit ==
  /\ redisHelpers \in HelperBuilds
  /\ \E n \in 0..MaxHistory :
       /\ version = [e \in Entities |->
            IF e = ClientEntity /\ redisHelpers = "bound" THEN n ELSE 0]
       /\ operations = [e \in Entities |->
            IF e = ClientEntity /\ redisHelpers = "bound" THEN History(n) ELSE <<>>]
  /\ handlers = <<>>
  /\ outbox = [s \in Sockets |-> <<>>]
  /\ members = [e \in Entities |-> IF e = ClientEntity THEN Sockets ELSE {}]
  /\ socketRooms = [s \in Sockets |-> <<UserRoom, ClientEntity>>]
  /\ presence = [e \in Entities |->
                   [u \in Users |-> IF e = ClientEntity THEN "viewing" ELSE "absent"]]

\* as Transform, with the version read of applyOperation failing:
\* getCurrentVersion catches the error and returns 0
ApplyReadFails(h) ==
  /\ handlers[h].pc = "transform"
  /\ LET d == handlers[h]
         t == IF d.version # d.currentVersion
              THEN transformOperation(d.entity, d.operation, d.version, d.currentVersion)
              ELSE d.operation
     IN handlers' = [handlers EXCEPT ![h].pc = "set",
                                     ![h].transformedOperation = t,
                                     ![h].between =
                                        StoredBetween(d.entity, d.version, d.currentVersion),
                                     ![h].applyVersion = 0]
  /\ UNCHANGED <<version, operations, outbox, members, socketRooms, presence, redisHelpers>>
  /\ UNCHANGED <<otVars, rateVars, frontVars, tokenVars, clientVars, gatewayVars>>

\* prisma.operation.create rejects: applyOperation rethrows and the handler
\* answers operation:error
CreateFails(h) ==
  /\ handlers[h].pc = "create"
  /\ handlers' = [handlers EXCEPT ![h].pc = "error"]
  /\ outbox' = [outbox EXCEPT ![handlers[h].socket] =
       Append(@, Msg("operation:error", handlers[h].entity, handlers[h].operation.id, NoOp, 0))]
  /\ UNCHANGED <<version, operations, members, socketRooms, presence, redisHelpers>>
  /\ UNCHANGED <<otVars, rateVars, frontVars, tokenVars, clientVars, gatewayVars>>

FaultNext ==
  \/ \E s \in Sockets, v \in 0..MaxVersion :
       \E operation \in WellFormedOperations(s) : Submit(s, ClientEntity, operation, v)
  \/ \E h \in DOMAIN handlers : Transform(h)
  \/ \E h \in DOMAIN handlers : ApplyReadFails(h)
  \/ \E h \in DOMAIN handlers : SetVersion(h)
  \/ \E h \in DOMAIN handlers : CreateOperation(h)
  \/ \E h \in DOMAIN handlers : CreateFails(h)
  \/ \E h \in DOMAIN handlers : Emit(h)

InitFault == OTIdle /\ FaultInit /\ ClientIdle /\ GatewayIdle /\ RateIdle /\ FrontIdle /\ TokenIdle

SpecFault == InitFault /\ [][FaultNext]_vars

\* ------------------------------------------------------------------ failing transform
\* transformOperation with an error thrown inside its try block: the catch
\* block logs it and returns the operation as it was submitted; the handler
\* goes on to applyOperation
TransformFails(h) ==
  /\ handlers[h].pc = "transform"
  /\ handlers[h].version # handlers[h].currentVersion
  /\ LET d == handlers[h]
     IN handlers' = [handlers EXCEPT ![h].pc = "set",
                                     ![h].transformedOperation = d.operation,
                                     ![h].transformFailed = TRUE,
                                     ![h].between =
                                        StoredBetween(d.entity, d.version, d.currentVersion),
                                     ![h].applyVersion = getCurrentVersion(d.entity)]
  /\ UNCHANGED <<version, operations, outbox, members, socketRooms, presence, redisHelpers>>
  /\ UNCHANGED <<otVars, rateVars, frontVars, tokenVars, clientVars, gatewayVars>>

\* both connections send inserts at any client version to an entity that has
\* been edited before; a transform may fail
TransformFaultNext ==
  \/ \E s \in Sockets, v \in 0..MaxVersion : Submit(s, ClientEntity, TypedInsert(s), v)
  \/ \E h \in DOMAIN handlers : Transform(h)
  \/ \E h \in DOMAIN handlers : TransformFails(h)
  \/ \E h \in DOMAIN handlers : SetVersion(h)
  \/ \E h \in DOMAIN handlers : CreateOperation(h)
  \/ \E h \in DOMAIN handlers : Emit(h)

SpecTransformFault == InitFault /\ [][TransformFaultNext]_vars

\* ------------------------------------------------------------------ content of the entity
RECURSIVE ContentAfter(_, _)
\* the content of the entity once its first k stored operations have been
\* applied, in the order of storage, to the empty text
ContentAfter(e, k) ==
  IF k = 0 THEN <<>>
  ELSE applyToContent(ContentAfter(e, k - 1), operations[e][k].operationData)

\* both connections send operations that are in bounds for the content the
\* entity had at the client version they carry
BoundsNext ==
  \/ \E s \in Sockets, v \in 0..MaxVersion :
       /\ v <= Len(operations[ClientEntity])
       /\ \E operation \in InBoundsOps(ContentAfter(ClientEntity, v), 1, User(s)) :
            Submit(s, ClientEntity, operation, v)
  \/ \E h \in DOMAIN handlers : Transform(h)
  \/ \E h \in DOMAIN handlers : SetVersion(h)
  \/ \E h \in DOMAIN handlers : CreateOperation(h)
  \/ \E h \in DOMAIN handlers : Emit(h)

SpecBounds == InitFault /\ [][BoundsNext]_vars

\* ------------------------------------------------------------------ rate limit of the authentication endpoints
Minute == 60 * 1000

\* the defaults of checkAuthRateLimit
maxAttempts == 5

windowMs == 15 * 60 * 1000

\* a request whose address cannot be told (req.ip and its fallbacks are empty)
NoIp == "none"

\* the time that passes between two requests: a minute, or the first instant
\* past the window
Delays == {Minute, windowMs + 1}

\* a request the middleware has handled and what it decided
Request(time, allowed) == [time |-> time, allowed |-> allowed]

\* number of requests with an address handled so far
Handled == Len(attemptLog["ip1"]) + Len(attemptLog["ip2"])

\* checkAuthRateLimit: whether the attempt is allowed, and the record the map
\* holds afterwards
checkAuthRateLimit(identifier) ==
  LET record == authRateLimit[identifier]
  IN IF record = NoRecord \/ now - record.lastAttempt > windowMs
     THEN [allowed |-> TRUE, record |-> [count |-> 1, lastAttempt |-> now]]
     ELSE IF record.count >= maxAttempts
     THEN [allowed |-> FALSE, record |-> record]
     ELSE [allowed |-> TRUE,
           record |-> [count |-> record.count + 1, lastAttempt |-> now]]

\* authRateLimitMiddleware: a request without an address passes; the others
\* pass when checkAuthRateLimit allows them and get 429 otherwise
authRateLimitMiddleware(ip) ==
  /\ Handled < MaxRequests
  /\ IF ip = NoIp
     THEN UNCHANGED <<authRateLimit, attemptLog>>
     ELSE /\ authRateLimit' = [authRateLimit EXCEPT ![ip] = checkAuthRateLimit(ip).record]
          /\ attemptLog' = [attemptLog EXCEPT ![ip] =
               Append(@, Request(now, checkAuthRateLimit(ip).allowed))]
  /\ UNCHANGED now
  /\ UNCHANGED <<otVars, frontVars, tokenVars, serverVars, clientVars, gatewayVars>>

\* cleanupRateLimitRecords, run by setInterval: the records whose last attempt
\* is more than the window ago are deleted
cleanupRateLimitRecords ==
  /\ authRateLimit' = [i \in Identifiers |->
       IF authRateLimit[i] # NoRecord /\ now - authRateLimit[i].lastAttempt > windowMs
       THEN NoRecord
       ELSE authRateLimit[i]]
  /\ UNCHANGED <<now, attemptLog>>
  /\ UNCHANGED <<otVars, frontVars, tokenVars, serverVars, clientVars, gatewayVars>>

\* time passes after a request
Tick(d) ==
  /\ \E i \in Identifiers :
       attemptLog[i] # <<>> /\ attemptLog[i][Len(attemptLog[i])].time = now
  /\ Handled < MaxRequests
  /\ now' = now + d
  /\ UNCHANGED <<authRateLimit, attemptLog>>
  /\ UNCHANGED <<otVars, frontVars, tokenVars, serverVars, clientVars, gatewayVars>>

RateNext ==
  \/ \E ip \in Identifiers \cup {NoIp} : authRateLimitMiddleware(ip)
  \/ cleanupRateLimitRecords
  \/ \E d \in Delays : Tick(d)

SpecRate == Init /\ [][RateNext]_vars

\* ------------------------------------------------------------------ refresh tokens
\* createTokenPair: an access token and a refresh token signed now; their iat
\* is Math.floor(Date.now() / 1000)
createTokenPair(u) == Pair(u, now \div 1000)

\* the login and register routes: createTokenPair, then storeRefreshToken
LoginRoute(u) ==
  /\ storedRefreshToken' = [storedRefreshToken EXCEPT ![u] = createTokenPair(u)]
  /\ UNCHANGED <<now, refreshCalls, frontVars>>
  /\ UNCHANGED <<authRateLimit, attemptLog>>
  /\ UNCHANGED <<otVars, serverVars, clientVars, gatewayVars>>

\* refreshTokens up to its first await: verifyRefreshToken accepts a token
\* this server signed (its seven days do not run out within MaxSeconds), then
\* getStoredRefreshToken reads the key of the user the token names
RefreshTokensRead(c, t) ==
  /\ refreshCalls[c].pc = "idle"
  /\ t.userId \in Users
  /\ refreshCalls' = [refreshCalls EXCEPT
       ![c] = Call("read", t, storedRefreshToken[t.userId], NoPair)]
  /\ UNCHANGED <<now, storedRefreshToken>>
  /\ UNCHANGED <<authRateLimit, attemptLog>>
  /\ UNCHANGED <<otVars, serverVars, clientVars, gatewayVars>>

\* refreshTokens after getStoredRefreshToken has returned: the comparison
\* with what was read, then createTokenPair and storeRefreshToken
RefreshTokensStore(c) ==
  /\ refreshCalls[c].pc = "read"
  /\ LET call == refreshCalls[c]
         u == call.token.userId
     IN  IF call.stored = NoPair \/ call.stored # call.token
           THEN /\ refreshCalls' = [refreshCalls EXCEPT ![c].pc = "failed"]
                /\ UNCHANGED storedRefreshToken
           ELSE /\ refreshCalls' = [refreshCalls EXCEPT
                     ![c].pc = "done", ![c].tokens = createTokenPair(u)]
                /\ storedRefreshToken' =
                     [storedRefreshToken EXCEPT ![u] = createTokenPair(u)]
  /\ UNCHANGED now
  /\ UNCHANGED <<authRateLimit, attemptLog>>
  /\ UNCHANGED <<otVars, serverVars, clientVars, gatewayVars>>

\* logout: removeStoredRefreshToken deletes the key of the user
LogoutRoute(u) ==
  /\ storedRefreshToken' = [storedRefreshToken EXCEPT ![u] = NoPair]
  /\ UNCHANGED <<now, refreshCalls, frontVars>>
  /\ UNCHANGED <<authRateLimit, attemptLog>>
  /\ UNCHANGED <<otVars, serverVars, clientVars, gatewayVars>>

\* a second passes
Second ==
  /\ now \div 1000 < MaxSeconds
  /\ now' = now + 1000
  /\ UNCHANGED <<tokenVars, frontVars>>
  /\ UNCHANGED <<authRateLimit, attemptLog>>
  /\ UNCHANGED <<otVars, serverVars, clientVars, gatewayVars>>

\* the token routes, called for both users by clients that present refresh
\* tokens the server has handed out
RefreshNext ==
  \/ \E u \in Users : LoginRoute(u)
  \/ \E c \in Calls :
       \E t \in ({storedRefreshToken[u] : u \in Users}
                   \cup {refreshCalls[d].token : d \in Calls}
                   \cup {refreshCalls[d].tokens : d \in Calls}) \ {NoPair} :
         RefreshTokensRead(c, t) /\ UNCHANGED frontVars
  \/ \E c \in Calls : RefreshTokensStore(c) /\ UNCHANGED frontVars
  \/ \E u \in Users : LogoutRoute(u)
  \/ Second

SpecRefresh == Init /\ [][RefreshNext]_vars

\* ------------------------------------------------------------------ useSocket and the auth slice
\* disconnect(): the socket socketRef names is disconnected and forgotten
disconnect(h) ==
  IF h.socketRef = 0 THEN h
  ELSE [h EXCEPT !.sockets[h.socketRef].state = "disconnected", !.socketRef = 0]

\* connect() of a render whose tokens.accessToken is token: nothing without a
\* token or when the socket socketRef names is connected, otherwise io(...)
\* creates a socket that starts to connect and socketRef is set to it
connect(h, token) ==
  IF token = NoPair
       \/ (h.socketRef # 0 /\ h.sockets[h.socketRef].state = "connected")
    THEN h
    ELSE [h EXCEPT !.sockets = Append(@, [token |-> token, state |-> "connecting"]),
                   !.socketRef = Len(h.sockets) + 1]

\* the actions the auth slice handles, with what they carry
SliceActions ==
  [type : {"initializeAuth", "login.rejected", "register.rejected",
           "refreshToken.rejected", "logout.fulfilled", "logout.rejected"},
   user : {"null"}, tokens : {NoPair}, payload : {"none"}]
  \cup [type : {"login.fulfilled", "register.fulfilled"},
        user : Users, tokens : {Pair(u, t) : u \in Users, t \in 0..MaxSeconds},
        payload : {"none"}]
  \cup [type : {"refreshToken.fulfilled"},
        user : {"null"}, tokens : {Pair(u, t) : u \in Users, t \in 0..MaxSeconds},
        payload : {"none"}]
  \cup [type : {"updateUser", "getCurrentUser.fulfilled"},
        user : Users, tokens : {NoPair}, payload : {"none"}]
  \cup [type : {"getCurrentUser.rejected"},
        user : {"null"}, tokens : {NoPair},
        payload : {"Failed to get user", "Network Error"}]

\* what the rejected cases and the logout cases leave without the flag cleared
SignedOutKeepsFlag(state) == AuthState("null", NoPair, state.isAuthenticated)

\* what the rejected cases and the logout cases leave: user and tokens null,
\* isAuthenticated false
SignedOut(state) == AuthState("null", NoPair, FALSE)

\* the reducers and extraReducers of the auth slice (the cases that only set
\* loading and error leave the state as it is)
authReducer(state, a) ==
  CASE a.type = "initializeAuth" ->
         IF storage.tokens # NoPair /\ storage.user # "null"
           THEN AuthState(storage.user, storage.tokens, TRUE)
           ELSE state
    [] a.type = "updateUser" ->
         IF state.user # "null" THEN [state EXCEPT !.user = a.user] ELSE state
    [] a.type \in {"login.fulfilled", "register.fulfilled"} ->
         AuthState(a.user, a.tokens, TRUE)
    [] a.type = "refreshToken.fulfilled" -> [state EXCEPT !.tokens = a.tokens]
    [] a.type = "getCurrentUser.fulfilled" -> [state EXCEPT !.user = a.user]
    [] a.type = "getCurrentUser.rejected" ->
         IF a.payload = "Failed to get user" THEN SignedOut(state) ELSE state
    [] OTHER -> SignedOut(state)

\* localStorage after the thunk and the reducer of an action have run
storageAfter(state, a) ==
  CASE a.type \in {"login.fulfilled", "register.fulfilled"} ->
         [user |-> a.user, tokens |-> a.tokens]
    [] a.type = "refreshToken.fulfilled" -> [storage EXCEPT !.tokens = a.tokens]
    [] a.type = "updateUser" ->
         IF state.user # "null" THEN [storage EXCEPT !.user = a.user] ELSE storage
    [] a.type \in {"refreshToken.rejected", "logout.fulfilled", "logout.rejected"} ->
         NoStorage
    [] a.type = "getCurrentUser.rejected" ->
         IF a.payload = "Failed to get user" THEN NoStorage ELSE storage
    [] OTHER -> storage

\* an action reaches the store: the slice reduces it, the components render
\* again, and when tokens.accessToken has changed the auto-connect effect of
\* useSocket runs its cleanup, disconnect(), and then connect()
Dispatch(a) ==
  /\ auth' = authReducer(auth, a)
  /\ storage' = storageAfter(auth, a)
  /\ hook' = IF hook.mounted # "yes" \/ authReducer(auth, a).tokens = auth.tokens
               THEN hook
               ELSE connect(disconnect(hook), authReducer(auth, a).tokens)
  /\ UNCHANGED <<indicator, emitted>>
  /\ UNCHANGED <<otVars, rateVars, tokenVars, serverVars, clientVars, gatewayVars>>

\* every action of the slice, in any order
SliceNext == \E a \in SliceActions : Dispatch(a)

SpecSlice == Init /\ [][SliceNext]_vars

\* the component that uses the hook is rendered ("mount": the auto-connect
\* effect runs) or removed ("unmount": the cleanups call disconnect()), or it
\* calls the connect() or disconnect() the hook returned
UseSocket(call) ==
  /\ call \in {"mount", "connect"} => Len(hook.sockets) < MaxSockets
  /\ CASE call = "mount" ->
            /\ hook.mounted = "no"
            /\ hook' = connect([hook EXCEPT !.mounted = "yes"], auth.tokens)
       [] call = "unmount" ->
            /\ hook.mounted = "yes"
            /\ hook' = [disconnect(hook) EXCEPT !.mounted = "gone"]
       [] call = "connect" ->
            /\ hook.mounted = "yes"
            /\ hook' = connect(hook, auth.tokens)
       [] OTHER ->
            /\ hook.mounted = "yes"
            /\ hook' = disconnect(hook)
  /\ hook' # hook
  /\ UNCHANGED <<indicator, emitted, auth, storage>>
  /\ UNCHANGED <<otVars, rateVars, tokenVars, serverVars, clientVars, gatewayVars>>

\* the server answers the handshake of a socket the hook created: jwt.verify
\* in the io.use middleware accepts the access token, or it has expired (here
\* in any second after the one it was signed in) and the middleware answers
\* 'Authentication failed'; the connect_error handler of the socket then calls
\* handleTokenExpiration, which posts the refresh token of the same render
SocketHandshake(i) ==
  /\ hook.sockets[i].state = "connecting"
  /\ IF now \div 1000 > hook.sockets[i].token.iat
       THEN /\ hook.pending = NoPair
            /\ hook.timer = NoPair
            /\ hook' = [hook EXCEPT !.sockets[i].state = "rejected",
                                    !.pending = hook.sockets[i].token]
       ELSE hook' = [hook EXCEPT !.sockets[i].state = "connected"]
  /\ UNCHANGED <<indicator, emitted, auth, storage>>
  /\ UNCHANGED <<otVars, rateVars, tokenVars, serverVars, clientVars, gatewayVars>>

\* handleTokenExpiration after its fetch: with response.ok the new tokens go
\* to localStorage, disconnect() is called and connect is scheduled; otherwise
\* localStorage is cleared and the page is replaced by /login, which ends the
\* sockets, the timers and the store of the page
RefreshResponse ==
  /\ hook.pending # NoPair
  /\ refreshCalls["c1"].pc \in {"done", "failed"}
  /\ IF refreshCalls["c1"].pc = "done"
       THEN /\ storage' = [storage EXCEPT !.tokens = refreshCalls["c1"].tokens]
            /\ hook' = [disconnect(hook) EXCEPT !.pending = NoPair,
                                                !.timer = hook.pending,
                                                !.newTokens = refreshCalls["c1"].tokens]
            /\ UNCHANGED auth
       ELSE /\ storage' = NoStorage
            /\ hook' = [hook EXCEPT
                 !.mounted = "unloaded", !.socketRef = 0, !.pending = NoPair,
                 !.sockets = [k \in DOMAIN hook.sockets |->
                                [hook.sockets[k] EXCEPT !.state = "disconnected"]]]
            /\ auth' = initialState
  /\ refreshCalls' = [refreshCalls EXCEPT !["c1"] = Call("idle", NoPair, NoPair, NoPair)]
  /\ UNCHANGED <<indicator, emitted, storedRefreshToken>>
  /\ UNCHANGED <<otVars, rateVars, serverVars, clientVars, gatewayVars>>

\* setTimeout(connect, 100) of handleTokenExpiration fires: connect is the
\* callback of the render handleTokenExpiration belongs to, with that
\* render's tokens.accessToken
ReconnectTimer ==
  /\ hook.timer # NoPair
  /\ Len(hook.sockets) < MaxSockets
  /\ hook' = [connect(hook, hook.timer) EXCEPT !.timer = NoPair]
  /\ UNCHANGED <<indicator, emitted, auth, storage>>
  /\ UNCHANGED <<otVars, rateVars, tokenVars, serverVars, clientVars, gatewayVars>>

\* u1 logs in, the component with the hook is rendered, seconds pass; sockets
\* are accepted or rejected, the hook refreshes the tokens, the user logs out
\* and in again
SocketNext ==
  \/ storedRefreshToken["u1"] = NoPair /\ LoginRoute("u1")
  \/ /\ auth = initialState
     /\ storedRefreshToken["u1"] # NoPair
     /\ hook.mounted # "unloaded"
     /\ Len(hook.sockets) < MaxSockets
     /\ Dispatch([type |-> "login.fulfilled", user |-> "u1",
                  tokens |-> storedRefreshToken["u1"], payload |-> "none"])
  \/ \E call \in {"mount", "unmount", "connect", "disconnect"} : UseSocket(call)
  \/ \E i \in DOMAIN hook.sockets : SocketHandshake(i)
  \/ hook.pending # NoPair /\ RefreshTokensRead("c1", hook.pending) /\ UNCHANGED frontVars
  \/ RefreshTokensStore("c1") /\ UNCHANGED frontVars
  \/ RefreshResponse
  \/ ReconnectTimer
  \/ /\ auth.isAuthenticated
     /\ Dispatch([type |-> "logout.fulfilled", user |-> "null",
                  tokens |-> NoPair, payload |-> "none"])
  \/ Second

SpecSocket == Init /\ [][SocketNext]_vars

\* ------------------------------------------------------------------ claims
\* C1: convergence. For every base text and every pair of in-bounds insert or
\* delete operations X and Y issued against it, applying X and then Y
\* transformed against X gives the same text as applying Y and then X
\* transformed against Y.
C1_Convergence ==
  otPc = {"left", "right"} => otLeft = otRight

\* the handlers that have read the version of their entity and have not yet
\* finished applyOperation
InApply(h) == handlers[h].pc \in {"transform", "set", "create"}

\* the handlers that went on to applyOperation
Applying(h) == handlers[h].pc \in {"set", "create", "emit", "done"}

\* C3: sequential apply per entity. No two handlers of the same entity are
\* at once between their version read and the end of applyOperation.
C3_SequentialApply ==
  \A h1, h2 \in DOMAIN handlers :
    (h1 # h2 /\ handlers[h1].entity = handlers[h2].entity)
      => ~(InApply(h1) /\ InApply(h2))

\* number of operations of entity e that were applied and acknowledged
Acked(e) == Cardinality({h \in DOMAIN handlers :
                           handlers[h].entity = e /\ handlers[h].pc = "done"})

Quiescent == \A h \in DOMAIN handlers : handlers[h].pc \in {"done", "error"}

RowsOf(e, id, u) ==
  {i \in DOMAIN operations[e] :
     operations[e][i].operationData.id = id /\ operations[e][i].userId = u}

\* the operation:receive messages emitted to s that carry operation id of user u
BroadcastsOf(s, id, u) ==
  {i \in DOMAIN outbox[s] :
     /\ outbox[s][i].event = "operation:receive"
     /\ outbox[s][i].operationId = id
     /\ outbox[s][i].operation.userId = u}

Applied(h) == handlers[h].pc \in {"create", "emit", "done"}

ReceivedVersions(s, e) ==
  LET idx == {i \in DOMAIN outbox[s] :
                outbox[s][i].event = "operation:receive" /\ outbox[s][i].entity = e}
  IN [i \in idx |-> outbox[s][i].version]

Settled ==
  /\ Quiescent
  /\ \A s \in Sockets : inbox[s] = <<>> /\ outbox[s] = <<>>

\* both clients made one edit each, before either saw the edit of the other
\* (both were submitted at client version 0), and the server handled the two
\* submissions one after the other
TwoConcurrentEdits ==
  /\ \A s \in Sockets : clEdits[s] = 1
  /\ Len(handlers) = 2
  /\ \A h \in DOMAIN handlers : handlers[h].version = 0
  /\ handlers[2].doneBefore = {1}

UserRank(u) == IF u = "u1" THEN 1 ELSE 2

\* op1 precedes op2 in the order of (clientTimestamp, authorId)
GoesFirst(op1, op2) ==
  \/ op1.timestamp < op2.timestamp
  \/ op1.timestamp = op2.timestamp /\ UserRank(op1.userId) < UserRank(op2.userId)

\* the base text with first and then second inserted at position p
InsertedInOrder(base, p, first, second) ==
  Slice(base, 0, p) \o first.content \o second.content \o Slice(base, p, Len(base))

\* C8: deterministic tie-break. Two inserts of different authors at the same
\* position give the same text in both arrival orders, with the insert of the
\* smaller (clientTimestamp, authorId) first.
C8_DeterministicTieBreak ==
  (/\ otPc = {"left", "right"}
   /\ otX.type = "insert" /\ otY.type = "insert"
   /\ otX.position = otY.position)
    => /\ otLeft = otRight
       /\ otLeft = IF GoesFirst(otX, otY)
                   THEN InsertedInOrder(otBase, otX.position, otX, otY)
                   ELSE InsertedInOrder(otBase, otX.position, otY, otX)

\* what the validation gate has to turn down, as the contract lists it
Malformed(operation) ==
  \/ operation.id = 0
  \/ operation.type \notin {"insert", "delete", "retain", "format"}
  \/ operation.positionType # "number"
  \/ operation.position < 0
  \/ operation.type = "delete" /\ operation.length <= 0
  \/ operation.type = "insert" /\ operation.content = <<>>

\* C11: validation gate. A malformed operation is rejected before any apply:
\* its handler ends in error at once and never transforms or applies, the
\* step that receives it leaves every version and every stored row as they
\* were and emits one operation:error, to the sender alone, and no stored row
\* ever holds a malformed operation.
C11_ValidationGate ==
  [][/\ \A h \in DOMAIN handlers' :
          Malformed(handlers'[h].operation) =>
            /\ handlers'[h].pc = "error"
            /\ handlers'[h].transformedOperation = NoOp
            /\ h \notin DOMAIN handlers =>
                 /\ version' = version
                 /\ operations' = operations
                 /\ outbox' = [outbox EXCEPT ![handlers'[h].socket] =
                      Append(@, Msg("operation:error", handlers'[h].entity,
                                    handlers'[h].operation.id, NoOp, 0))]
     /\ \A e \in Entities : \A i \in DOMAIN operations'[e] :
          ~Malformed(operations'[e][i].operationData)
    ]_vars

\* a malformed operation was turned down while another operation was applied
C11_Rejected ==
  \E h, g \in DOMAIN handlers :
    /\ Malformed(handlers[h].operation)
    /\ handlers[h].pc = "error"
    /\ handlers[g].pc = "done"

Unauthenticated(s) ==
  \/ handshake[s].token \in {"none", "invalid"}
  \/ handshake[s].account \in {"missing", "inactive"}

\* C14: authentication gate. A connection with a missing or failing token or
\* with a missing or inactive user is never connected, is in no room, its
\* user room included, and no join, leave, presence or operation handler has
\* run for it.
C14_AuthenticationGate ==
  \A s \in Sockets :
    Unauthenticated(s) =>
      /\ conn[s] \in {"new", "rejected"}
      /\ socketRooms[s] = <<>>
      /\ \A e \in Entities : s \notin members[e] /\ presence[e][User(s)] = "absent"
      /\ \A h \in DOMAIN handlers : handlers[h].socket # s
      /\ lastEvent.socket = s => lastEvent.event = "connect_error"

\* the connection of an inactive user with a valid token was refused while
\* the other connection was accepted and joined an entity
C14_Refused ==
  \E s, r \in Sockets :
    /\ conn[s] = "rejected"
    /\ handshake[s] = Handshake("valid", "inactive")
    /\ conn[r] = "connected"
    /\ r \in members[ClientEntity]

\* the rooms socket.data.rooms of s names
TrackedRooms(s) == {socketRooms[s][i] : i \in DOMAIN socketRooms[s]}

\* C15: disconnect cleanup. Once disconnect has been handled for a
\* connection, its user has no presence entry in any entity whose room the
\* connection had joined.
C15_DisconnectCleanup ==
  lastEvent.event = "disconnect" =>
    \A e \in Entities \cap TrackedRooms(lastEvent.socket) :
      presence[e][lastEvent.userId] = "absent"

\* the events added to the queue of s by a step
NewEvents(s) == SubSeq(events'[s], Len(events[s]) + 1, Len(events'[s]))

EmitsAbout(r, e, u) ==
  /\ Len(events'[r]) = Len(events[r]) + 1
  /\ events'[r][Len(events'[r])].entity = e
  /\ events'[r][Len(events'[r])].userId = u

\* C17: presence expiry. When the entry of a user expires, an event about
\* the removal is emitted to every member of the room of the entity.
C17_ExpiryBroadcast ==
  [][lastEvent'.event = "expire" =>
       \A r \in members'[lastEvent'.entity] :
         EmitsAbout(r, lastEvent'.entity, lastEvent'.userId)
    ]_vars

\* the step upserts or removes a presence entry on behalf of a connection
ChangesPresence ==
  \/ lastEvent'.event \in {"join:entity", "presence:update"}
  \/ /\ lastEvent'.event = "leave:entity"
     /\ presence[lastEvent'.entity][lastEvent'.userId] # "absent"

\* C18: presence changes are broadcast. Every upsert and every removal of a
\* presence entry by a connection emits an event about it to every other
\* member of the room of the entity.
C18_PresenceBroadcast ==
  [][ChangesPresence =>
       \A r \in members'[lastEvent'.entity] \ {lastEvent'.socket} :
         EmitsAbout(r, lastEvent'.entity, lastEvent'.userId)
    ]_vars

\* both users are connected and in the room of the entity
BothJoined ==
  \A s \in Sockets : conn[s] = "connected" /\ s \in members[ClientEntity]

\* the presence list of each client has an online entry of the other user
EachShowsOther ==
  \A s \in Sockets : \A u \in Users \ {User(s)} : shown[s][u].isOnline

\* C19: mutual presence visibility. Once both users have joined the entity,
\* and for as long as both stay, each client comes to show the other user as
\* present.
C19_MutualVisibility ==
  BothJoined ~> (EachShowsOther \/ ~BothJoined)

\* C20: join is presence-neutral. Handling join:entity changes no presence
\* entry and emits no presence event.
C20_JoinPresenceNeutral ==
  [][lastEvent'.event = "join:entity" => (presence' = presence /\ events' = events)]_vars

\* what the documentation promises for the authentication endpoints: 5
\* requests per minute
DocumentedLimit == 5

DocumentedWindowMs == 60 * 1000

\* the allowed requests of identifier i handled at a time in [from, to)
AllowedIn(i, from, to) ==
  {k \in DOMAIN attemptLog[i] :
     /\ attemptLog[i][k].allowed
     /\ from <= attemptLog[i][k].time /\ attemptLog[i][k].time < to}

\* C21: authentication rate limit. In every window of one minute at most 5
\* requests of one identifier are allowed, and an identifier that was turned
\* down is allowed again when it comes back a minute or more later.
C21_AuthRateLimit ==
  \A i \in Identifiers :
    /\ \A k \in DOMAIN attemptLog[i] :
         Cardinality(AllowedIn(i, attemptLog[i][k].time,
                               attemptLog[i][k].time + DocumentedWindowMs)) <= DocumentedLimit
    /\ \A k \in DOMAIN attemptLog[i] :
         (/\ k > 1
          /\ ~attemptLog[i][k - 1].allowed
          /\ attemptLog[i][k].time - attemptLog[i][k - 1].time >= DocumentedWindowMs)
           => attemptLog[i][k].allowed

\* number of characters the ranges of two deletes share
Overlap(a, b) ==
  Max(0, Min(a.position + a.length, b.position + b.length) - Max(a.position, b.position))

\* number of characters of the range of b that lie before the start of a
Preceding(a, b) == Max(0, Min(b.position + b.length, a.position) - b.position)

\* the delete/delete rule: a loses what b has deleted already and moves left
\* by what b deleted before it
DeleteDeleteRule(a, b) ==
  [a EXCEPT !.length = a.length - Overlap(a, b),
            !.position = Max(0, a.position - Preceding(a, b))]

\* the text of Scenario B and its two deletes
ScenarioText == <<"a", "b", "c", "d", "e", "f">>

ScenarioA == MkOp(1, "delete", 1, 3, <<>>, "u1", 1)

ScenarioB == MkOp(2, "delete", 2, 2, <<>>, "u2", 1)

\* C22: delete/delete rule. A delete transformed against a concurrent delete
\* is the delete shortened by the overlap of the two ranges and moved left by
\* the part of the other range that precedes it; in Scenario B the second
\* delete, transformed against the first, leaves "aef" as it is.
C22_DeleteDelete ==
  /\ (otX.type = "delete" /\ otY.type = "delete" /\ otXT # NoOp)
       => otXT = DeleteDeleteRule(otX, otY)
  /\ (otX.type = "delete" /\ otY.type = "delete" /\ otYT # NoOp)
       => otYT = DeleteDeleteRule(otY, otX)
  /\ (otX = ScenarioA /\ otY = ScenarioB /\ otYT # NoOp)
       => /\ otYT.length = 0
          /\ applyToContent(applyToContent(ScenarioText, otX), otYT) = <<"a", "e", "f">>

\* the delete/insert rule: unchanged before the insertion point, shifted
\* behind it, grown around it
DeleteInsertRule(a, b) ==
  IF a.position + a.length <= b.position THEN a
  ELSE IF a.position >= b.position
  THEN [a EXCEPT !.position = a.position + Len(b.content)]
  ELSE [a EXCEPT !.length = a.length + Len(b.content)]

\* C23: delete/insert rule. A delete transformed against a concurrent insert
\* is unchanged when it ends at or before the insertion point, shifted by the
\* inserted length when it starts at or after it, and grown by the inserted
\* length when the insertion point lies strictly inside its range.
C23_DeleteInsert ==
  /\ (otX.type = "delete" /\ otY.type = "insert" /\ otXT # NoOp)
       => otXT = DeleteInsertRule(otX, otY)
  /\ (otY.type = "delete" /\ otX.type = "insert" /\ otYT # NoOp)
       => otYT = DeleteInsertRule(otY, otX)

\* the insert/delete rule: unchanged at or before the deleted range, shifted
\* left behind it, moved to its start inside it
InsertDeleteRule(a, b) ==
  IF a.position <= b.position THEN a
  ELSE IF a.position >= b.position + b.length
  THEN [a EXCEPT !.position = a.position - b.length]
  ELSE [a EXCEPT !.position = b.position]

\* C24: insert/delete rule. An insert transformed against a concurrent delete
\* is unchanged when its position is at most the start of the delete, shifted
\* left by the deleted length when it is at or behind the end of the deleted
\* range, and moved to the start of the range otherwise; its position is
\* never negative.
C24_InsertDelete ==
  /\ (otX.type = "insert" /\ otY.type = "delete" /\ otXT # NoOp)
       => otXT = InsertDeleteRule(otX, otY) /\ otXT.position >= 0
  /\ (otY.type = "insert" /\ otX.type = "delete" /\ otYT # NoOp)
       => otYT = InsertDeleteRule(otY, otX) /\ otYT.position >= 0

\* an insert inside the range of a delete has been moved to the start of the
\* range
C24_Moved ==
  /\ otX.type = "insert" /\ otY.type = "delete"
  /\ otY.position < otX.position /\ otX.position < otY.position + otY.length
  /\ otXT # NoOp
  /\ otXT.position = otY.position

\* the messages of the handler h in the outbox of socket s
MessagesOf(s, h, event) ==
  {i \in DOMAIN outbox[s] :
     /\ outbox[s][i].event = event
     /\ outbox[s][i].entity = handlers[h].entity
     /\ outbox[s][i].operationId = handlers[h].operation.id}

C26_RoomAccessControl ==
  [][/\ \A s \in Sockets, e \in Entities, status \in Statuses :
          (s \notin members[e] /\ OnPresenceUpdate(s, e, status))
            => (presence' = presence /\ events' = events)
     /\ \A h \in DOMAIN handlers :
          (handlers[h].socket \notin members'[handlers[h].entity] /\ handlers'[h] # handlers[h])
            => /\ version' = version
               /\ operations' = operations
               /\ \A r \in Sockets \ {handlers[h].socket} : outbox'[r] = outbox[r]
    ]_vars

\* C27: a presence entry changes only by an upsert of its own key or by its
\* removal, and an upsert leaves in it the status it carried: "viewing" for
\* join:entity, and for presence:update the status that the rest of the room
\* is told in presence:updated. So the entry of a key, while it exists, holds
\* the status of the most recent upsert of that key.
UpsertOf(ev, e, u) ==
  /\ ev.entity = e /\ ev.userId = u
  /\ ev.event \in {"join:entity", "presence:update"}

StepOfHandlerFor(e) ==
  \/ /\ Len(handlers') = Len(handlers) + 1
     /\ handlers'[Len(handlers')].entity = e
  \/ \E h \in DOMAIN handlers :
       handlers'[h] # handlers[h] /\ handlers[h].entity = e
  \/ /\ handlers' = handlers
     /\ lastEvent'.entity = e
     /\ lastEvent'.event \in {"join:entity", "leave:entity", "presence:update"}

C28_EntityIndependence ==
  [][\A e \in Entities :
       (version'[e] # version[e] \/ operations'[e] # operations[e] \/ presence'[e] # presence[e])
         => StepOfHandlerFor(e)
    ]_vars

\* C28 witness: operations for e1 and e2 were in progress at the same time (the
\* second was submitted before the first had finished) while s1 was present
\* on e2 only; e1 has its version and its row, e2 is at version 0 with no row
C28_Interleaved ==
  /\ Len(handlers) = 2
  /\ handlers[1].entity = "e1" /\ handlers[2].entity = "e2"
  /\ 1 \notin handlers[2].doneBefore
  /\ handlers[1].pc = "done" /\ handlers[2].pc = "set"
  /\ version["e1"] = 1 /\ Len(operations["e1"]) = 1
  /\ version["e2"] = 0 /\ operations["e2"] = <<>>
  /\ presence["e2"]["u1"] = "editing" /\ presence["e1"]["u1"] = "absent"

\* the handler finishes in this step: it leaves the steps between validation
\* and its last emit
FinishedBy(h) ==
  /\ handlers[h].pc \notin {"done", "error"}
  /\ handlers'[h].pc \in {"done", "error"}

\* the stored rows of the handler's entity that hold its operation, and the
\* handlers of that entity and operation that have run their row insert
RowsHolding(h) ==
  {i \in DOMAIN operations'[handlers[h].entity] :
     operations'[handlers[h].entity][i].operationData = handlers'[h].transformedOperation}

InsertedLike(h) ==
  {g \in DOMAIN handlers' :
     /\ handlers'[g].entity = handlers[h].entity
     /\ handlers'[g].transformedOperation = handlers'[h].transformedOperation
     /\ handlers'[g].pc \in {"emit", "done"}}

\* C29: in-flight operations survive disconnect. A handler whose connection
\* disconnected after the operation passed validation finishes by having
\* applied the operation once (one stored row for it) and by sending
\* operation:receive to the members that remain in the room.
C29_InFlightSurvivesDisconnect ==
  [][\A h \in DOMAIN handlers :
       (conn[handlers[h].socket] = "disconnected" /\ FinishedBy(h))
         => /\ handlers'[h].pc = "done"
            /\ RowsHolding(h) # {}
            /\ Cardinality(RowsHolding(h)) = Cardinality(InsertedLike(h))
            /\ \A r \in members[handlers[h].entity] \ {handlers[h].socket} :
                 outbox'[r] = Append(outbox[r],
                   Msg("operation:receive", handlers[h].entity, handlers[h].operation.id,
                       handlers'[h].transformedOperation, handlers'[h].sentVersion))
    ]_vars

\* the sequence numbers of the stored rows of an entity
SequenceNumbers(e) == {operations[e][i].sequenceNumber : i \in DOMAIN operations[e]}

InBounds(operation, content) ==
  /\ operation.position >= 0
  /\ operation.length >= 0
  /\ operation.type = "insert" => operation.position <= Len(content)
  /\ operation.type = "delete" => operation.position + operation.length <= Len(content)

C33_UnmountLeavesNoPresence ==
  \A s \in Sockets :
    (indicator[s].mounted = "gone" /\ emitted[s] = <<>>)
      => presence[ClientEntity][User(s)] = "absent"

\* how often socket.data.rooms of s names the room
TimesTracked(s, room) ==
  Cardinality({i \in DOMAIN socketRooms[s] : socketRooms[s][i] = room})

\* C34: tracked rooms match membership. While a connection is open,
\* socket.data.rooms names the room of an entity once when the socket is
\* joined to it and not at all when it is not.
C34_TrackedRoomsMatchMembership ==
  \A s \in Sockets, e \in Entities :
    conn[s] = "connected"
      => TimesTracked(s, e) = (IF s \in members[e] THEN 1 ELSE 0)

\* C37: refresh tokens are single-use. No two calls of refreshTokens that
\* were given the same refresh token both return a new token pair.
C37_RefreshTokenSingleUse ==
  \A c1, c2 \in Calls :
    (c1 # c2 /\ refreshCalls[c1].pc = "done" /\ refreshCalls[c2].pc = "done")
      => refreshCalls[c1].token # refreshCalls[c2].token

\* C38: auth state consistency. Whenever isAuthenticated is true, user and
\* tokens are not null.
C38_AuthStateConsistent ==
  auth.isAuthenticated => (auth.user # "null" /\ auth.tokens # NoPair)

\* C38 witness: the slice is authenticated for one user while it holds the
\* tokens of the other, which takes a login and a later outcome of another
\* thunk
C38_Interleaved ==
  /\ auth.isAuthenticated
  /\ auth.user = "u1"
  /\ auth.tokens.userId = "u2"
  /\ storage.user = "u2"

\* the sockets of the hook that have been created and not disconnected
LiveSockets ==
  {i \in DOMAIN hook.sockets : hook.sockets[i].state \in {"connecting", "connected"}}

\* C35: single live socket. A useSocket instance never has more than one
\* socket that is connecting or connected.
C35_SingleLiveSocket == Cardinality(LiveSockets) <= 1

\* C36: token-expiry recovery. The socket the reconnect timer creates after a
\* token refresh that succeeded carries the access token that refresh issued.
C36_ReconnectUsesNewToken ==
  [][(hook.timer # NoPair /\ hook'.timer = NoPair
        /\ Len(hook'.sockets) > Len(hook.sockets))
       => hook'.sockets[Len(hook'.sockets)].token = hook.newTokens]_vars

====
